---------------------------- MODULE Spec2Model ----------------------------
(***************************************************************************)
(* A model of the expanding tokenizer: the line-buffered Reader            *)
(* (expanding/source.py), the variable resolver (expanding/variable.py),   *)
(* the dollar-expansion engine (expanding/expand.py), the arithmetic       *)
(* tokenizer and expression tree (expanding/math.py) and the Tokenizer     *)
(* with its token matcher (expanding/tokenizer.py).                        *)
(*                                                                         *)
(* Text is a sequence of one-character strings.  Every operation of the    *)
(* program is an operator from the state it reads to a result record       *)
(* holding the state it leaves, a status ("ok", the kind of the exception  *)
(* raised, or "hang" for a loop that never ends) and the value returned.   *)
(***************************************************************************)
EXTENDS Integers, Sequences, FiniteSets, TLC

VARIABLES
    reader,      \* Reader: _source, _buffer, _line, _real_line, _pos, _eof
    env,         \* EnvironmentVariable._env
    whitespace,  \* the TokenWhitespace policy the Tokenizer was built with
    single,      \* the single_tokens string the Tokenizer was built with
    tokens,      \* Tokenizer._tokens, the pending token queue
    output,      \* the list the caller passes as output=
    call,        \* the last call made: its name, its arguments, what it returned
    consumed,    \* how many tokens have left the queue since the start
    shadow,      \* a second Tokenizer on the same text, on which the calls
                 \* that returned None are never made
    input        \* the text the Reader was built on, and how it was put together

vars == <<reader, env, whitespace, single, tokens, output, call, consumed, shadow,
          input>>

\* F applied to v: a local name for a value that is computed once
Bind(v, F(_)) == F(v)

(***************************************************************************)
(* Characters                                                              *)
(***************************************************************************)
None == "None"          \* Python's None
LineNoObj == "<int>"    \* the int stored at index 0 of a buffered line

Digits == {"0", "1", "2", "3", "4", "5", "6", "7", "8", "9"}
OctDigits == {"0", "1", "2", "3", "4", "5", "6", "7"}
HexDigits == Digits \cup {"a", "b", "c", "d", "e", "f", "A", "B", "C", "D", "E", "F"}
Letters ==
    {"a", "b", "c", "d", "e", "f", "g", "h", "i", "j", "k", "l", "m",
     "n", "o", "p", "q", "r", "s", "t", "u", "v", "w", "x", "y", "z",
     "A", "B", "C", "D", "E", "F", "G", "H", "I", "J", "K", "L", "M",
     "N", "O", "P", "Q", "R", "S", "T", "U", "V", "W", "X", "Y", "Z"}
Spaces == {" ", "\n", "\t", "\r"}

IsAlnum(c) == c \in Letters \cup Digits
IsSpace(c) == c \in Spaces

DigitVal(c) ==
    CASE c = "0" -> 0 [] c = "1" -> 1 [] c = "2" -> 2 [] c = "3" -> 3
      [] c = "4" -> 4 [] c = "5" -> 5 [] c = "6" -> 6 [] c = "7" -> 7
      [] c = "8" -> 8 [] c = "9" -> 9
      [] c \in {"a", "A"} -> 10 [] c \in {"b", "B"} -> 11
      [] c \in {"c", "C"} -> 12 [] c \in {"d", "D"} -> 13
      [] c \in {"e", "E"} -> 14 [] c \in {"f", "F"} -> 15

DigitChar(d) ==
    CASE d = 0 -> "0" [] d = 1 -> "1" [] d = 2 -> "2" [] d = 3 -> "3"
      [] d = 4 -> "4" [] d = 5 -> "5" [] d = 6 -> "6" [] d = 7 -> "7"
      [] d = 8 -> "8" [] d = 9 -> "9"

(***************************************************************************)
(* Reader (expanding/source.py)                                            *)
(***************************************************************************)
KeepLines == 2    \* _read_line drops old lines while more than this many are kept

\* io.StringIO(text).readline(): the text cut after every newline.
RECURSIVE SplitLines(_)
SplitLines(text) ==
    IF text = <<>> THEN <<>>
    ELSE LET nl == {i \in 1..Len(text) : text[i] = "\n"}
         IN IF nl = {} THEN <<text>>
            ELSE LET k == CHOOSE i \in nl : \A j \in nl : i <= j
                 IN <<SubSeq(text, 1, k)>> \o SplitLines(SubSeq(text, k + 1, Len(text)))

\* len(self._buffer[i]) for the 0-based i: the line number and the characters.
LineLen(r, i) == Len(r.buffer[i + 1].chars) + 1

\* Reader.eof
ReaderEof(r) ==
    r.eof /\ (r.line >= Len(r.buffer)
              \/ (r.line + 1 = Len(r.buffer) /\ r.pos = LineLen(r, r.line)))

\* A _read_line that keeps no line but the one it reads.
ReadLineKeepsOne(r) ==
    IF ReaderEof(r) THEN r
    ELSE IF r.real_line >= Len(r.source) THEN [r EXCEPT !.eof = TRUE]
    ELSE [r EXCEPT !.buffer = <<[no |-> r.real_line + 1,
                                 chars |-> r.source[r.real_line + 1]]>>,
                   !.line = 0,
                   !.real_line = r.real_line + 1,
                   !.pos = 1]

\* Reader._read_line
ReadLine(r) ==
    IF ReaderEof(r) THEN r
    ELSE IF r.real_line >= Len(r.source) THEN [r EXCEPT !.eof = TRUE]
    ELSE LET n == Len(r.buffer)
             buf == IF n > KeepLines THEN SubSeq(r.buffer, n - KeepLines + 1, n)
                    ELSE r.buffer
         IN [r EXCEPT !.buffer = Append(buf, [no |-> r.real_line + 1,
                                              chars |-> r.source[r.real_line + 1]]),
                      !.line = Len(buf),
                      !.real_line = r.real_line + 1,
                      !.pos = 1]

\* Reader.__init__
NewReader(text) ==
    ReadLine([source |-> SplitLines(text), buffer |-> <<>>, line |-> 0,
              real_line |-> 0, pos |-> -1, eof |-> FALSE])

\* self._buffer[self._line][self._pos] with Python's indexing: index 0 is the
\* line number, a negative index counts from the end, anything else outside
\* the list raises IndexError.
BufferItem(r) ==
    IF r.line < 0 \/ r.line >= Len(r.buffer) THEN [st |-> "IndexError", v |-> None]
    ELSE LET n == LineLen(r, r.line)
             i == IF r.pos < 0 THEN r.pos + n ELSE r.pos
         IN IF i < 0 \/ i >= n THEN [st |-> "IndexError", v |-> None]
            ELSE IF i = 0 THEN [st |-> "ok", v |-> LineNoObj]
            ELSE [st |-> "ok", v |-> r.buffer[r.line + 1].chars[i]]

\* A get without the test for the end of the input: there it indexes past
\* the end of the buffered line.
GetPastEnd(r) ==
    Bind(BufferItem(r), LAMBDA c :
    IF c.st # "ok" THEN [rd |-> r, st |-> c.st, v |-> None]
    ELSE [rd |-> IF r.pos + 1 # LineLen(r, r.line) THEN [r EXCEPT !.pos = r.pos + 1]
                 ELSE IF r.line + 1 = Len(r.buffer)
                      THEN ReadLine([r EXCEPT !.pos = r.pos + 1])
                 ELSE [r EXCEPT !.pos = 1, !.line = r.line + 1],
          st |-> "ok", v |-> c.v])

\* Reader.get
Get(r) ==
    IF ReaderEof(r) THEN [rd |-> r, st |-> "ok", v |-> None]
    ELSE Bind(BufferItem(r), LAMBDA c :
         IF c.st # "ok" THEN [rd |-> r, st |-> c.st, v |-> None]
         ELSE [rd |-> IF r.pos + 1 # LineLen(r, r.line) THEN [r EXCEPT !.pos = r.pos + 1]
                      ELSE IF r.line + 1 = Len(r.buffer)
                           THEN ReadLine([r EXCEPT !.pos = r.pos + 1])
                      ELSE [r EXCEPT !.pos = 1, !.line = r.line + 1],
               st |-> "ok", v |-> c.v])

\* An unget that cannot leave the line: it raises at the first character of
\* every line.
UngetWithinLine(r) ==
    LET r1 == [r EXCEPT !.pos = r.pos - 1]
    IN IF r1.pos <= 0 THEN [rd |-> r1, st |-> "BufferError", v |-> None]
       ELSE [rd |-> r1, st |-> "ok", v |-> None]

\* Reader.unget
Unget(r) ==
    LET r1 == [r EXCEPT !.pos = r.pos - 1]
    IN IF r1.pos <= 0
       THEN IF r1.line = 0 THEN [rd |-> r1, st |-> "BufferError", v |-> None]
            ELSE IF r1.line - 1 >= Len(r1.buffer)
                 THEN [rd |-> [r1 EXCEPT !.line = r1.line - 1], st |-> "IndexError", v |-> None]
                 ELSE [rd |-> [r1 EXCEPT !.line = r1.line - 1,
                                         !.pos = LineLen(r1, r1.line - 1) - 1],
                       st |-> "ok", v |-> None]
       ELSE [rd |-> r1, st |-> "ok", v |-> None]

\* An at that reports the index of the line in the buffer.
AtBufferIndex(r) ==
    IF ReaderEof(r) THEN <<>>
    ELSE IF r.line < 0 \/ r.line >= Len(r.buffer) THEN <<>>
    ELSE <<r.line + 1, r.pos>>

\* Reader.at: <<line, pos>>, or <<>> for the location that has no line
At(r) ==
    IF ReaderEof(r) THEN <<>>
    ELSE IF r.line < 0 \/ r.line >= Len(r.buffer) THEN <<>>
    ELSE <<r.buffer[r.line + 1].no, r.pos>>


(***************************************************************************)
(* Text and numbers                                                        *)
(***************************************************************************)
NoneText == <<None>>    \* None where the program expects a str or None

\* The printable ASCII characters, in code point order from 32 (the grave
\* accent, which a TLA+ string cannot hold, under a name).
Ascii ==
    <<
      " ", "!", "\"", "#", "$", "%", "&", "'", "(", ")", "*", "+",
      ",", "-", ".", "/", "0", "1", "2", "3", "4", "5", "6", "7",
      "8", "9", ":", ";", "<", "=", ">", "?", "@", "A", "B", "C",
      "D", "E", "F", "G", "H", "I", "J", "K", "L", "M", "N", "O",
      "P", "Q", "R", "S", "T", "U", "V", "W", "X", "Y", "Z", "[",
      "\\", "]", "^", "_", "<grave>", "a", "b", "c", "d", "e", "f", "g",
      "h", "i", "j", "k", "l", "m", "n", "o", "p", "q", "r", "s",
      "t", "u", "v", "w", "x", "y", "z", "{", "|", "}", "~"
    >>
FirstAscii == 32    \* ord(" ")
OtherChar == "<chr>"    \* chr(n) for a code point without an entry above

\* chr(n)
Chr(n) ==
    IF n = 9 THEN "\t" ELSE IF n = 10 THEN "\n" ELSE IF n = 13 THEN "\r"
    ELSE IF n >= FirstAscii /\ n < FirstAscii + Len(Ascii) THEN Ascii[n - FirstAscii + 1]
    ELSE OtherChar

\* ord(c), for the characters Chr knows
Ord(c) ==
    IF c = "\t" THEN 9 ELSE IF c = "\n" THEN 10 ELSE IF c = "\r" THEN 13
    ELSE IF \E i \in 1..Len(Ascii) : Ascii[i] = c
         THEN (CHOOSE i \in 1..Len(Ascii) : Ascii[i] = c) + FirstAscii - 1
    ELSE 0

\* int(text, base) for a text of digits of that base
RECURSIVE ParseInt(_, _)
ParseInt(text, base) ==
    IF text = <<>> THEN 0
    ELSE ParseInt(SubSeq(text, 1, Len(text) - 1), base) * base + DigitVal(text[Len(text)])

\* str(n) for an int n
RECURSIVE NatToStr(_)
NatToStr(n) ==
    IF n < 10 THEN <<DigitChar(n)>>
    ELSE Append(NatToStr(n \div 10), DigitChar(n % 10))

IntToStr(n) == IF n < 0 THEN <<"-">> \o NatToStr(0 - n) ELSE NatToStr(n)

RECURSIVE Concat(_)
Concat(ss) == IF ss = <<>> THEN <<>> ELSE Head(ss) \o Concat(Tail(ss))

\* A get_quoted that returns the character after the backslash as it is.
GetQuotedVerbatim(r) ==
    Bind(Get(r), LAMBDA g :
    IF g.st # "ok" THEN g
    ELSE IF g.v = None THEN [rd |-> g.rd, st |-> "UnexpectedEOF", v |-> None]
    ELSE g)

\* Reader.get_quoted
GetQuoted(r) ==
    Bind(Get(r), LAMBDA g :
    Bind(Get(g.rd), LAMBDA g1 :
    Bind(Get(g1.rd), LAMBDA g2 :
    Bind(Get(g2.rd), LAMBDA g3 :
    Bind(Get(g3.rd), LAMBDA g4 :
    LET c == g.v
        hexa == <<g1.v, g2.v, g3.v, g4.v>>
        octal == <<c, g1.v, g2.v>>
    IN IF g.st # "ok" THEN g
       ELSE IF c = None THEN [rd |-> g.rd, st |-> "UnexpectedEOF", v |-> None]
       ELSE IF c = "n" THEN [rd |-> g.rd, st |-> "ok", v |-> "\n"]
       ELSE IF c = "r" THEN [rd |-> g.rd, st |-> "ok", v |-> "\r"]
       ELSE IF c = "t" THEN [rd |-> g.rd, st |-> "ok", v |-> "\t"]
       ELSE IF c = "u"
            THEN IF \E h \in {g1, g2, g3, g4} : h.st # "ok"
                      THEN [rd |-> g4.rd, st |-> "IndexError", v |-> None]
                 ELSE IF \E i \in 1..4 : hexa[i] = None
                      THEN [rd |-> g4.rd, st |-> "UnexpectedEOF", v |-> None]
                 ELSE IF \E i \in 1..4 : hexa[i] \notin HexDigits
                      THEN [rd |-> g4.rd, st |-> "ValueError", v |-> None]
                 ELSE [rd |-> g4.rd, st |-> "ok", v |-> Chr(ParseInt(hexa, 16))]
       ELSE IF c \in Digits /\ DigitVal(c) <= 3
            THEN IF \E h \in {g1, g2} : h.st # "ok"
                      THEN [rd |-> g2.rd, st |-> "IndexError", v |-> None]
                 ELSE IF \E i \in 2..3 : octal[i] = None
                      THEN [rd |-> g2.rd, st |-> "UnexpectedEOF", v |-> None]
                 ELSE IF \E i \in 2..3 : octal[i] \notin OctDigits
                      THEN [rd |-> g2.rd, st |-> "ValueError", v |-> None]
                 ELSE [rd |-> g2.rd, st |-> "ok", v |-> Chr(ParseInt(octal, 8))]
       ELSE [rd |-> g.rd, st |-> "ok", v |-> c])))))

(***************************************************************************)
(* EnvironmentVariable (expanding/variable.py)                             *)
(***************************************************************************)
\* EnvironmentVariable.get_name.  The code compares with "c is '_'", an
\* identity test whose outcome depends on the interpreter; it is read here as
\* equality, and no text of the state machines below holds an underscore.
RECURSIVE GetName(_, _)
GetName(r, name) ==
    Bind(Get(r), LAMBDA g :
    Bind(Unget(g.rd), LAMBDA u :
    IF g.st # "ok" THEN [rd |-> g.rd, st |-> g.st, v |-> NoneText]
    ELSE IF g.v = None THEN [rd |-> g.rd, st |-> "ok", v |-> name]
    ELSE IF g.v = LineNoObj THEN [rd |-> g.rd, st |-> "TypeError", v |-> NoneText]
    ELSE IF IsAlnum(g.v) \/ g.v = "_"
         THEN GetName(g.rd, IF name = NoneText THEN <<g.v>> ELSE Append(name, g.v))
    ELSE [rd |-> u.rd, st |-> u.st, v |-> IF u.st = "ok" THEN name ELSE NoneText]))

\* EnvironmentVariable.lookup_variable
LookupVariable(name) == IF name \in DOMAIN env THEN env[name] ELSE NoneText

(***************************************************************************)
(* Quote functions (Expansion.DEFAULT_QUOTES, expanding/expand.py)         *)
(***************************************************************************)
QuoteMs == <<"m", "s">>
QuoteS == <<"s">>
QuoteXml == <<"x", "m", "l">>
QuoteAttr == <<"a", "t", "t", "r">>
QuoteUri == <<"u", "r", "i">>
QuoteSql == <<"s", "q", "l">>
QuoteNames == {QuoteMs, QuoteS, QuoteXml, QuoteAttr, QuoteUri, QuoteSql}

\* s.replace("'", "''")
SqlChar(c) == IF c = "'" THEN <<"'", "'">> ELSE <<c>>

\* saxutils.escape(s)
XmlChar(c) ==
    IF c = "&" THEN <<"&", "a", "m", "p", ";">>
    ELSE IF c = ">" THEN <<"&", "g", "t", ";">>
    ELSE IF c = "<" THEN <<"&", "l", "t", ";">>
    ELSE <<c>>

\* saxutils.escape(s, {'"': '&quot;'})
AttrChar(c) == IF c = "\"" THEN <<"&", "q", "u", "o", "t", ";">> ELSE XmlChar(c)

HexChar(d) ==
    IF d < 10 THEN DigitChar(d)
    ELSE CASE d = 10 -> "A" [] d = 11 -> "B" [] d = 12 -> "C"
           [] d = 13 -> "D" [] d = 14 -> "E" [] d = 15 -> "F"

\* urllib.parse.quote_plus(s.encode('utf-8'))
UriChar(c) ==
    IF IsAlnum(c) \/ c \in {"_", ".", "-", "~"} THEN <<c>>
    ELSE IF c = " " THEN <<"+">>
    ELSE <<"%", HexChar(Ord(c) \div 16), HexChar(Ord(c) % 16)>>

MapSql(str) == Concat([i \in 1..Len(str) |-> SqlChar(str[i])])
MapXml(str) == Concat([i \in 1..Len(str) |-> XmlChar(str[i])])
MapAttr(str) == Concat([i \in 1..Len(str) |-> AttrChar(str[i])])
MapUri(str) == Concat([i \in 1..Len(str) |-> UriChar(str[i])])

\* The units TO_MILLISECONDS and TO_SECONDS accept after the number.
MsUnits == {<<>>, <<"h">>, <<"m">>, <<"m", "s">>, <<"s">>}
SUnits == {<<>>, <<"h">>, <<"m">>, <<"s">>}

\* TO_MILLISECONDS_SCALE and TO_SECONDS_SCALE
MsScale(u) ==
    CASE u = <<>> -> 1 [] u = <<"m", "s">> -> 1 [] u = <<"s">> -> 1000
      [] u = <<"m">> -> 60000 [] u = <<"h">> -> 3600000 [] u = <<"d">> -> 86400000
SScale(u) ==
    CASE u = <<>> -> 1 [] u = <<"s">> -> 1 [] u = <<"m">> -> 60
      [] u = <<"h">> -> 3600 [] u = <<"d">> -> 86400

\* A pattern's closing $ matches at the end or before a newline that ends the text.
BeforeFinalNewline(str) ==
    IF str # <<>> /\ str[Len(str)] = "\n" THEN SubSeq(str, 1, Len(str) - 1) ELSE str

\* The length of the longest prefix of str made of characters of set.
RECURSIVE PrefixLen(_, _)
PrefixLen(str, set) ==
    IF str = <<>> \/ Head(str) \notin set THEN 0 ELSE 1 + PrefixLen(Tail(str), set)

\* '^([1-9][0-9]*)(<units>)$' matched against str: the groups, or no match
DurationMatch(str, units) ==
    Bind(BeforeFinalNewline(str), LAMBDA t :
    Bind(PrefixLen(t, Digits), LAMBDA n :
    IF n = 0 \/ t[1] = "0" \/ SubSeq(t, n + 1, Len(t)) \notin units
    THEN [ok |-> FALSE, num |-> <<>>, unit |-> <<>>]
    ELSE [ok |-> TRUE, num |-> SubSeq(t, 1, n), unit |-> SubSeq(t, n + 1, Len(t))]))

\* Expansion.to_milliseconds
ToMilliseconds(str) ==
    Bind(DurationMatch(str, MsUnits), LAMBDA m :
    IF ~m.ok THEN [st |-> "NotADuration", v |-> NoneText]
    ELSE [st |-> "ok", v |-> IntToStr(ParseInt(m.num, 10) * MsScale(m.unit))])

\* Expansion.to_seconds
ToSeconds(str) ==
    Bind(DurationMatch(str, SUnits), LAMBDA m :
    IF ~m.ok THEN [st |-> "NotADuration", v |-> NoneText]
    ELSE [st |-> "ok", v |-> IntToStr(ParseInt(m.num, 10) * SScale(m.unit))])

\* self.quotes[quote](value, at)
ApplyQuote(quote, value) ==
    CASE quote = QuoteMs -> ToMilliseconds(value)
      [] quote = QuoteS -> ToSeconds(value)
      [] quote = QuoteXml -> [st |-> "ok", v |-> MapXml(value)]
      [] quote = QuoteAttr -> [st |-> "ok", v |-> MapAttr(value)]
      [] quote = QuoteUri -> [st |-> "ok", v |-> MapUri(value)]
      [] quote = QuoteSql -> [st |-> "ok", v |-> MapSql(value)]

\* The quotes applied from the last one listed to the first.
RECURSIVE ApplyQuotesLastFirst(_, _)
ApplyQuotesLastFirst(quotes, value) ==
    IF quotes = <<>> THEN [st |-> "ok", v |-> value]
    ELSE Bind(ApplyQuotesLastFirst(Tail(quotes), value), LAMBDA q :
         IF q.st # "ok" THEN q ELSE ApplyQuote(Head(quotes), q.v))

\* for quote in quotes: value = self.quotes[quote](value, at)
RECURSIVE ApplyQuotes(_, _)
ApplyQuotes(quotes, value) ==
    IF quotes = <<>> THEN [st |-> "ok", v |-> value]
    ELSE Bind(ApplyQuote(Head(quotes), value), LAMBDA q :
         IF q.st # "ok" THEN q ELSE ApplyQuotes(Tail(quotes), q.v))

(***************************************************************************)
(* Arithmetic (expanding/math.py)                                          *)
(*                                                                         *)
(* An int-or-None is <<n>> or <<>>.  A tree is <<"VALUE", int-or-None>>    *)
(* (MathValue) or <<operator, left, right>> (MathExpr).                    *)
(***************************************************************************)
NoInt == <<>>
Int1(n) == <<n>>

\* MathTokenizer._SINGLE_CHAR_TOKENS
MathSingleChars == {"(", ")", "+", "-", "*", "/", "%", "<", ">"}
MathSingleType(c) ==
    CASE c = "(" -> "LPAR" [] c = ")" -> "RPAR" [] c = "+" -> "ADD" [] c = "-" -> "SUB"
      [] c = "*" -> "MUL" [] c = "/" -> "DIV" [] c = "%" -> "MOD"
      [] c = "<" -> "MIN" [] c = ">" -> "MAX"

\* MathToken._PRECEDENCE; 0 stands for None (no precedence)
PrecRPar == 999
PrecMul == 1
PrecAdd == 2
PrecMin == 3
NoPrecedence == 0
Precedence(type) ==
    CASE type = "RPAR" -> PrecRPar
      [] type \in {"MUL", "DIV", "MOD"} -> PrecMul
      [] type \in {"ADD", "SUB"} -> PrecAdd
      [] type \in {"MIN", "MAX"} -> PrecMin
      [] OTHER -> NoPrecedence

\* MathTokenizer._as_int: _IS_NUMBER matches an optionally signed hexadecimal
\* number, a decimal number or an octal number; int(content, base) reads it.
AsInt(content) ==
    Bind(BeforeFinalNewline(content), LAMBDA t :
    Bind(IF t # <<>> /\ t[1] \in {"-", "+"} THEN Tail(t) ELSE t, LAMBDA body :
    IF /\ Len(body) >= 3
       /\ body[1] = "0"
       /\ body[2] \in {"x", "X"}
       /\ \A i \in 3..Len(body) : body[i] \in HexDigits
    THEN Int1(IF t[1] = "-" THEN 0 - ParseInt(SubSeq(body, 3, Len(body)), 16)
              ELSE ParseInt(SubSeq(body, 3, Len(body)), 16))
    ELSE IF t # <<>> /\ t[1] \in Digits \ {"0"} /\ \A i \in 1..Len(t) : t[i] \in Digits
         THEN Int1(ParseInt(t, 10))
    ELSE IF t # <<>> /\ t[1] = "0" /\ \A i \in 1..Len(t) : t[i] \in OctDigits
         THEN Int1(ParseInt(t, 8))
    ELSE NoInt))

Abs(n) == IF n < 0 THEN 0 - n ELSE n

\* int(l / r): the quotient cut toward zero
PyDiv(l, r) ==
    IF (l < 0) = (r < 0) THEN Abs(l) \div Abs(r) ELSE 0 - (Abs(l) \div Abs(r))

\* l % r: the remainder with the sign of r
PyMod(l, r) ==
    Bind(Abs(l) % Abs(r), LAMBDA m :
    IF m = 0 THEN 0
    ELSE IF (l < 0) = (r < 0) THEN (IF r < 0 THEN 0 - m ELSE m)
    ELSE (IF r < 0 THEN m - Abs(r) ELSE Abs(r) - m))

\* MathExpr.OPERATIONS
Operation(op, l, r) ==
    IF op \in {"DIV", "MOD"} /\ r = 0 THEN [st |-> "ZeroDivisionError", n |-> NoInt]
    ELSE [st |-> "ok",
          n |-> Int1(CASE op = "ADD" -> l + r
                       [] op = "SUB" -> l - r
                       [] op = "MUL" -> l * r
                       [] op = "DIV" -> PyDiv(l, r)
                       [] op = "MOD" -> PyMod(l, r)
                       [] op = "MIN" -> IF l <= r THEN l ELSE r
                       [] op = "MAX" -> IF l >= r THEN l ELSE r)]

MathValue(n) == <<"VALUE", n>>
MathExpr(op, left, right) == <<op, left, right>>

\* MathValue.get_value / MathExpr.get_value
RECURSIVE GetValue(_)
GetValue(tree) ==
    IF tree[1] = "VALUE" THEN [st |-> "ok", n |-> tree[2]]
    ELSE Bind(GetValue(tree[2]), LAMBDA left :
         Bind(GetValue(tree[3]), LAMBDA right :
         IF left.st # "ok" THEN left
         ELSE IF right.st # "ok" THEN right
         ELSE IF left.n = NoInt \/ right.n = NoInt THEN [st |-> "TypeError", n |-> NoInt]
         ELSE Operation(tree[1], left.n[1], right.n[1])))

\* A reduction that leaves an operator of the same precedence on the stack.
ReducesBeforeStrict(top, precedence) == Precedence(top) < precedence

\* operators[-1].precedence() <= precedence
ReducesBefore(top, precedence) == Precedence(top) <= precedence

\* while operators and operators[-1].precedence() <= precedence: pop, combine, push
RECURSIVE Reduce(_, _, _)
Reduce(operators, values, precedence) ==
    IF operators # <<>> /\ ReducesBefore(operators[Len(operators)], precedence)
    THEN LET n == Len(values)
             right == values[n]
             left == values[n - 1]
             operator == operators[Len(operators)]
         IN Reduce(SubSeq(operators, 1, Len(operators) - 1),
                   Append(SubSeq(values, 1, n - 2), MathExpr(operator, left, right)),
                   precedence)
    ELSE [operators |-> operators, values |-> values]

(***************************************************************************)
(* Expansion (expanding/expand.py) and MathTokenizer (expanding/math.py)   *)
(*                                                                         *)
(* The operators below pass along the Reader and tk, the should_resolve of *)
(* the MathTokenizer that Expansion._tokenizer holds (<<>> before the      *)
(* first one is made).  A result is [rd, tk, st, v].                       *)
(***************************************************************************)
Result(r, tk, st, v) == [rd |-> r, tk |-> tk, st |-> st, v |-> v]
Raise(r, tk, st) == [rd |-> r, tk |-> tk, st |-> st, v |-> NoneText]

RECURSIVE Expand(_, _, _)
RECURSIVE ExpandVariable(_, _, _)
RECURSIVE ProcessUntilClosingBracket(_, _, _, _)
RECURSIVE ExpandMath(_, _, _)
RECURSIVE ProcessToClosingParenthesis(_, _, _, _)
RECURSIVE MathToken(_, _, _)

\* Expansion._process_variable: v is <<name, value>>
ProcessVariable(r) ==
    Bind(GetName(r, NoneText), LAMBDA n :
    [rd |-> n.rd, st |-> n.st,
     v |-> <<n.v, IF n.st = "ok" /\ n.v # NoneText THEN LookupVariable(n.v) ELSE NoneText>>])

\* A _fail_variable that accepts a name without value.
FailVariableNameOnly(name, value) ==
    IF name = NoneText THEN "CannotFindName" ELSE "ok"

\* Expansion._fail_variable: the exception it raises, or "ok"
FailVariable(name, value) ==
    IF name = NoneText THEN "CannotFindName"
    ELSE IF value = NoneText THEN "CannotResolve"
    ELSE "ok"

\* MathTokenizer._get: the next character that is no whitespace
RECURSIVE MathGet(_)
MathGet(r) ==
    Bind(Get(r), LAMBDA g :
    IF g.st # "ok" THEN g
    ELSE IF g.v = None THEN [rd |-> g.rd, st |-> "UnexpectedEOF", v |-> None]
    ELSE IF g.v = LineNoObj THEN [rd |-> g.rd, st |-> "TypeError", v |-> None]
    ELSE IF IsSpace(g.v) THEN MathGet(g.rd)
    ELSE g)

\* MathTokenizer.token, the loop that reads the rest of an alphanumeric run:
\* v is the run
RECURSIVE MathRun(_, _)
MathRun(r, content) ==
    Bind(MathGet(r), LAMBDA g :
    Bind(Unget(g.rd), LAMBDA u :
    IF g.st # "ok" THEN [rd |-> g.rd, st |-> g.st, v |-> content]
    ELSE IF IsAlnum(g.v) THEN MathRun(g.rd, Append(content, g.v))
    ELSE [rd |-> u.rd, st |-> u.st, v |-> content]))

\* MathTokenizer.token, the sign loop over an expanded text:
\* while content and content[0] is '-'
RECURSIVE StripMinus(_, _)
StripMinus(content, neg) ==
    IF content # <<>> /\ content[1] = "-" THEN StripMinus(Tail(content), ~neg)
    ELSE [neg |-> neg, content |-> content]

\* A MathToken: its type and, for a NUMBER, its content
MathTok(type, n) == [type |-> type, n |-> n]
NoTok == MathTok("NONE", NoInt)

\* MathTokenizer.token of the tokenizer whose _should_resolve is sr
MathToken(r, tk, sr) ==
    Bind(MathGet(r), LAMBDA g :
    Bind(MathRun(g.rd, <<g.v>>), LAMBDA run :
    Bind(Expand(g.rd, tk, sr), LAMBDA e :
    Bind(StripMinus(e.v, FALSE), LAMBDA s :
    Bind(AsInt(IF g.v = "$" THEN s.content ELSE run.v), LAMBDA value :
    IF g.st # "ok" THEN Result(g.rd, tk, g.st, NoTok)
    ELSE IF g.v \in MathSingleChars
         THEN Result(g.rd, tk, "ok", MathTok(MathSingleType(g.v), NoInt))
    ELSE IF IsAlnum(g.v)
         THEN IF run.st # "ok" THEN Result(run.rd, tk, run.st, NoTok)
              ELSE IF sr /\ value = NoInt THEN Result(run.rd, tk, "NotANumber", NoTok)
              ELSE Result(run.rd, tk, "ok", MathTok("NUMBER", IF sr THEN value ELSE NoInt))
    ELSE IF g.v = "$"
         THEN IF e.st # "ok" THEN Result(e.rd, e.tk, e.st, NoTok)
              ELSE IF ~sr THEN Result(e.rd, e.tk, "ok", MathTok("NUMBER", NoInt))
              ELSE IF value = NoInt
                   THEN Result(e.rd, e.tk, IF s.neg THEN "TypeError" ELSE "NotANumber", NoTok)
              ELSE Result(e.rd, e.tk, "ok",
                          MathTok("NUMBER", IF s.neg THEN Int1(0 - value[1]) ELSE value))
    ELSE Result(g.rd, tk, "UnexpectedCharacter", NoTok))))))

\* A sign loop that sets neg at every "-" instead of inverting it.
RECURSIVE SkipSubSets(_, _, _)
SkipSubSets(r, tk, neg) ==
    Bind(MathToken(r, tk, tk[1]), LAMBDA t :
    IF t.st # "ok" THEN Result(t.rd, t.tk, t.st, <<neg, NoTok>>)
    ELSE IF t.v.type = "SUB" THEN SkipSubSets(t.rd, t.tk, TRUE)
    ELSE Result(t.rd, t.tk, "ok", <<neg, t.v>>))

\* Expansion._process_to_closing_parenthesis, the loop
\*   while token.is_a(MathType.SUB): neg = not neg; token = self._tokenizer.token()
\* v is <<neg, the first token that is no SUB>>
RECURSIVE SkipSub(_, _, _)
SkipSub(r, tk, neg) ==
    Bind(MathToken(r, tk, tk[1]), LAMBDA t :
    IF t.st # "ok" THEN Result(t.rd, t.tk, t.st, <<neg, NoTok>>)
    ELSE IF t.v.type = "SUB" THEN SkipSub(t.rd, t.tk, ~neg)
    ELSE Result(t.rd, t.tk, "ok", <<neg, t.v>>))

\* Expansion._process_to_closing_parenthesis, from the head of its loop with
\* the two stacks as they are; v is the tree
ProcessToClosingParenthesis(r, tk, operators, values) ==
    Bind(SkipSub(r, tk, FALSE), LAMBDA s :
    Bind(IF s.v[2].type = "LPAR" THEN ProcessToClosingParenthesis(s.rd, s.tk, <<>>, <<>>)
         ELSE IF s.v[2].type = "NUMBER" THEN Result(s.rd, s.tk, "ok", MathValue(s.v[2].n))
         ELSE Raise(s.rd, s.tk, "UnexpectedToken"), LAMBDA operand :
    Bind(MathToken(operand.rd, operand.tk, operand.tk[1]), LAMBDA next :
    Bind(Reduce(operators,
                Append(values, IF s.v[1] THEN MathExpr("SUB", MathValue(Int1(0)), operand.v)
                               ELSE operand.v),
                Precedence(next.v.type)), LAMBDA reduced :
    IF s.st # "ok" THEN Raise(s.rd, s.tk, s.st)
    ELSE IF operand.st # "ok" THEN Raise(operand.rd, operand.tk, operand.st)
    ELSE IF next.st # "ok" THEN Raise(next.rd, next.tk, next.st)
    ELSE IF Precedence(next.v.type) = NoPrecedence
         THEN Raise(next.rd, next.tk, "UnexpectedToken")
    ELSE IF next.v.type = "RPAR"
         THEN Result(next.rd, next.tk, "ok", reduced.values[Len(reduced.values)])
    ELSE ProcessToClosingParenthesis(next.rd, next.tk,
                                     Append(reduced.operators, next.v.type),
                                     reduced.values)))))

\* Expansion._expand_math
ExpandMath(r, tk, should_resolve) ==
    Bind(ProcessToClosingParenthesis(r, <<should_resolve>>, <<>>, <<>>), LAMBDA tree :
    Bind(GetValue(tree.v), LAMBDA value :
    IF tree.st # "ok" THEN tree
    ELSE IF ~should_resolve THEN Result(tree.rd, tree.tk, "ok", <<>>)
    ELSE IF value.st # "ok" THEN Raise(tree.rd, tree.tk, value.st)
    ELSE Result(tree.rd, tree.tk, "ok",
                IF value.n = NoInt THEN <<"N", "o", "n", "e">> ELSE IntToStr(value.n[1]))))

\* Expansion._expand_variable, the inner loop that reads one quote name:
\* v is <<the name, the character after it>>
RECURSIVE ReadQuote(_, _)
ReadQuote(r, quote) ==
    Bind(Get(r), LAMBDA g :
    IF g.st # "ok" THEN [rd |-> g.rd, st |-> g.st, v |-> <<quote, None>>]
    ELSE IF g.v \in {None, LineNoObj}
         THEN [rd |-> g.rd, st |-> "TypeError", v |-> <<quote, None>>]
    ELSE IF IsAlnum(g.v) THEN ReadQuote(g.rd, Append(quote, g.v))
    ELSE [rd |-> g.rd, st |-> "ok", v |-> <<quote, g.v>>])

\* Expansion._expand_variable, the loop "while c is ','" over the quote names:
\* v is <<the quotes, the character after them>>
RECURSIVE ReadQuotes(_, _)
ReadQuotes(r, quotes) ==
    Bind(ReadQuote(r, <<>>), LAMBDA q :
    IF q.st # "ok" THEN [rd |-> q.rd, st |-> q.st, v |-> <<quotes, None>>]
    ELSE IF q.v[1] \notin QuoteNames
         THEN [rd |-> q.rd, st |-> "UnknownQuote", v |-> <<quotes, None>>]
    ELSE IF q.v[2] = "," THEN ReadQuotes(q.rd, Append(quotes, q.v[1]))
    ELSE [rd |-> q.rd, st |-> "ok", v |-> <<Append(quotes, q.v[1]), q.v[2]>>])

\* A default value that must resolve whenever the caller's must.
DefaultAlwaysResolves(should_resolve, value) == should_resolve

\* should_resolve and value is None: whether the default value must resolve
DefaultResolves(should_resolve, value) == should_resolve /\ value = NoneText

\* Expansion._expand_variable
ExpandVariable(r, tk, should_resolve) ==
    Bind(ProcessVariable(r), LAMBDA p :
    Bind(Get(p.rd), LAMBDA g :
    Bind(IF g.v = ":" THEN ReadQuotes(g.rd, <<>>)
         ELSE [rd |-> g.rd, st |-> "ok", v |-> <<<<>>, g.v>>], LAMBDA q :
    Bind(ProcessUntilClosingBracket(q.rd, tk, DefaultResolves(should_resolve, p.v[2]), <<>>),
         LAMBDA d :
    Bind(ApplyQuotes(q.v[1], p.v[2]), LAMBDA quoted :
    Bind(FailVariable(p.v[1], p.v[2]), LAMBDA fail :
    IF p.st # "ok" THEN Raise(p.rd, tk, p.st)
    ELSE IF g.st # "ok" THEN Raise(g.rd, tk, g.st)
    ELSE IF q.st # "ok" THEN Raise(q.rd, tk, q.st)
    ELSE IF q.v[2] = "|"
         THEN IF d.st # "ok" THEN Raise(d.rd, d.tk, d.st)
              ELSE IF ~should_resolve THEN Result(d.rd, d.tk, "ok", <<>>)
              ELSE IF p.v[2] = NoneText THEN Result(d.rd, d.tk, "ok", d.v)
              ELSE IF quoted.st # "ok" THEN Raise(d.rd, d.tk, quoted.st)
              ELSE Result(d.rd, d.tk, "ok", quoted.v)
    ELSE IF q.v[2] = None THEN Raise(q.rd, tk, "UnexpectedEOF")
    ELSE IF q.v[2] # "}" THEN Raise(q.rd, tk, "ExpectedBrace")
    ELSE IF ~should_resolve THEN Result(q.rd, tk, "ok", <<>>)
    ELSE IF fail # "ok" THEN Raise(q.rd, tk, fail)
    ELSE IF quoted.st # "ok" THEN Raise(q.rd, tk, quoted.st)
    ELSE Result(q.rd, tk, "ok", quoted.v)))))))

\* Expansion._process_until_closing_bracket, from the head of its loop with
\* the content written so far.  A pass of the loop that leaves the reader,
\* the tokenizer and the content as it found them repeats for ever: "hang".
ProcessUntilClosingBracket(r, tk, should_resolve, content) ==
    Bind(Get(r), LAMBDA g :
    Bind(Expand(g.rd, tk, should_resolve), LAMBDA e :
    Bind(GetQuoted(g.rd), LAMBDA k :
    IF g.st # "ok" THEN Raise(g.rd, tk, g.st)
    ELSE IF g.v = "}" THEN Result(g.rd, tk, "ok", content)
    ELSE IF g.v = None THEN Raise(g.rd, tk, "UnexpectedEOF")
    ELSE IF g.v = "$"
         THEN IF e.st # "ok" THEN Raise(e.rd, e.tk, e.st)
              ELSE IF e.v = NoneText /\ e.rd = r /\ e.tk = tk THEN Raise(e.rd, e.tk, "hang")
              ELSE ProcessUntilClosingBracket(e.rd, e.tk, should_resolve,
                                              IF e.v = NoneText THEN content
                                              ELSE content \o e.v)
    ELSE IF g.v = "\\"
         THEN IF k.st # "ok" THEN Raise(k.rd, tk, k.st)
              ELSE ProcessUntilClosingBracket(k.rd, tk, should_resolve, Append(content, k.v))
    ELSE ProcessUntilClosingBracket(g.rd, tk, should_resolve, Append(content, g.v)))))

\* An expand that leaves the name unread when no value is required.
ExpandSkipsName(r, tk, should_resolve) ==
    Bind(Get(r), LAMBDA g :
    Bind(Unget(g.rd), LAMBDA u :
    Bind(ProcessVariable(u.rd), LAMBDA p :
    Bind(FailVariable(p.v[1], p.v[2]), LAMBDA fail :
    IF g.st # "ok" THEN Raise(g.rd, tk, g.st)
    ELSE IF g.v = "{" THEN ExpandVariable(g.rd, tk, should_resolve)
    ELSE IF g.v = "(" THEN ExpandMath(g.rd, tk, should_resolve)
    ELSE IF u.st # "ok" THEN Raise(u.rd, tk, u.st)
    ELSE IF ~should_resolve THEN Result(u.rd, tk, "ok", NoneText)
    ELSE IF p.st # "ok" THEN Raise(p.rd, tk, p.st)
    ELSE IF fail # "ok" THEN Raise(p.rd, tk, fail)
    ELSE Result(p.rd, tk, "ok", p.v[2])))))

\* Expansion.expand
Expand(r, tk, should_resolve) ==
    Bind(Get(r), LAMBDA g :
    Bind(Unget(g.rd), LAMBDA u :
    Bind(ProcessVariable(u.rd), LAMBDA p :
    Bind(FailVariable(p.v[1], p.v[2]), LAMBDA fail :
    IF g.st # "ok" THEN Raise(g.rd, tk, g.st)
    ELSE IF g.v = "{" THEN ExpandVariable(g.rd, tk, should_resolve)
    ELSE IF g.v = "(" THEN ExpandMath(g.rd, tk, should_resolve)
    ELSE IF u.st # "ok" THEN Raise(u.rd, tk, u.st)
    ELSE IF p.st # "ok" THEN Raise(p.rd, tk, p.st)
    ELSE IF should_resolve /\ fail # "ok" THEN Raise(p.rd, tk, fail)
    ELSE Result(p.rd, tk, "ok", p.v[2])))))

(***************************************************************************)
(* Token and Tokenizer (expanding/tokenizer.py)                            *)
(***************************************************************************)
\* Token(at, token_type, content)
Token(at, type, content) == [at |-> at, type |-> type, content |-> content]

\* Token._IS_NUMBER.match(content) is not None
IsNumber(content) == AsInt(content) # NoInt

\* Token._IS_WORD.match(content) is not None: '^\S+$'
IsWord(content) ==
    LET t == BeforeFinalNewline(content)
    IN /\ t # <<>>
       /\ \A i \in 1..Len(t) : ~IsSpace(t[i])

\* Token.is_a
IsA(token, wanted_type) ==
    CASE wanted_type = "ANY" -> TRUE
      [] wanted_type = "ANY_WHITESPACE" -> token.type \in {"NEWLINE", "WHITESPACE"}
      [] wanted_type = "EOL" -> token.type \in {"NEWLINE", "EOF"}
      [] wanted_type = "NUMBER" -> token.type = "TEXT" /\ IsNumber(token.content)
      [] wanted_type = "WORD" -> token.type = "TEXT" /\ IsWord(token.content)
      [] OTHER -> wanted_type = token.type

\* Tokenizer._SINGLE_CHARACTER_TOKENS
SingleCharacters ==
    {"=", ".", ",", ":", ";", "(", ")", "{", "}", "[", "]", "+", "-", "*", "/", "%",
     "^", "&", "<", ">", "?", "!"}
SingleCharacterType(c) ==
    CASE c = "=" -> "EQ" [] c = "." -> "DOT" [] c = "," -> "COMMA" [] c = ":" -> "COLON"
      [] c = ";" -> "SEMICOLON" [] c = "(" -> "LPARENT" [] c = ")" -> "RPARENT"
      [] c = "{" -> "LBRACE" [] c = "}" -> "RBRACE" [] c = "[" -> "LBRACK"
      [] c = "]" -> "RBRACK" [] c = "+" -> "ADD" [] c = "-" -> "SUB" [] c = "*" -> "MUL"
      [] c = "/" -> "DIV" [] c = "%" -> "MOD" [] c = "^" -> "POW" [] c = "&" -> "AMP"
      [] c = "<" -> "LT" [] c = ">" -> "GT" [] c = "?" -> "QUESTION"
      [] c = "!" -> "EXCLAMATION"

\* self._single_tokens (its keys) and self._break_chars, for the single_tokens
\* string the Tokenizer was built with
SingleTokens(single_tokens) == SingleCharacters \cap single_tokens
BreakChars(single_tokens) ==
    SingleTokens(single_tokens) \cup {"[", "]", "$", ";", "#", "'", "\""}

\* What a whitespace handler or a reading routine leaves: the reader, the
\* status and the tokens it appended to self._tokens.
Lexed(r, st, new) == [rd |-> r, st |-> st, new |-> new]

\* Tokenizer._handle_whitespace_none: "ok" without a token is its False
RECURSIVE HandleWhitespaceNone(_, _, _)
HandleWhitespaceNone(r, at, c) ==
    Bind(Unget(r), LAMBDA u :
    Bind(Get(r), LAMBDA g :
    IF c = None THEN Lexed(r, "ok", <<>>)
    ELSE IF c = LineNoObj THEN Lexed(r, "TypeError", <<>>)
    ELSE IF ~IsSpace(c) THEN Lexed(u.rd, u.st, <<>>)
    ELSE IF g.st # "ok" THEN Lexed(g.rd, g.st, <<>>)
    ELSE HandleWhitespaceNone(g.rd, at, g.v)))

\* Tokenizer._handle_whitespace_newline
RECURSIVE HandleWhitespaceNewline(_, _, _)
HandleWhitespaceNewline(r, at, c) ==
    Bind(Unget(r), LAMBDA u :
    Bind(Get(r), LAMBDA g :
    IF c = None THEN Lexed(r, "ok", <<>>)
    ELSE IF c = "\n" THEN Lexed(r, "ok", <<Token(at, "NEWLINE", <<c>>)>>)
    ELSE IF c = LineNoObj THEN Lexed(r, "TypeError", <<>>)
    ELSE IF ~IsSpace(c) THEN Lexed(u.rd, u.st, <<>>)
    ELSE IF g.st # "ok" THEN Lexed(g.rd, g.st, <<>>)
    ELSE HandleWhitespaceNewline(g.rd, at, g.v)))

\* Tokenizer._handle_whitespace_whitespace
RECURSIVE HandleWhitespaceWhitespace(_, _, _, _)
HandleWhitespaceWhitespace(r, at, c, content) ==
    Bind(Unget(r), LAMBDA u :
    Bind(Get(r), LAMBDA g :
    IF c = None THEN Lexed(r, "ok", <<Token(at, "WHITESPACE", content)>>)
    ELSE IF c = LineNoObj THEN Lexed(r, "TypeError", <<>>)
    ELSE IF ~IsSpace(c)
         THEN Lexed(u.rd, u.st, IF u.st = "ok" THEN <<Token(at, "WHITESPACE", content)>>
                                ELSE <<>>)
    ELSE IF g.st # "ok" THEN Lexed(g.rd, g.st, <<>>)
    ELSE HandleWhitespaceWhitespace(g.rd, at, g.v, Append(content, c))))

\* Tokenizer._handle_whitespace_both, its loop
RECURSIVE HandleWhitespaceBothLoop(_, _, _, _)
HandleWhitespaceBothLoop(r, at, c, content) ==
    Bind(Unget(r), LAMBDA u :
    Bind(Get(r), LAMBDA g :
    IF c = None THEN Lexed(r, "ok", <<Token(at, "WHITESPACE", content)>>)
    ELSE IF c = LineNoObj THEN Lexed(r, "TypeError", <<>>)
    ELSE IF ~IsSpace(c) \/ c = "\n"
         THEN Lexed(u.rd, u.st, IF u.st = "ok" THEN <<Token(at, "WHITESPACE", content)>>
                                ELSE <<>>)
    ELSE IF g.st # "ok" THEN Lexed(g.rd, g.st, <<>>)
    ELSE HandleWhitespaceBothLoop(g.rd, at, g.v, Append(content, c))))

\* A handler for BOTH that folds the newlines into the whitespace token.
HandleWhitespaceBothFolds(r, at, c) == HandleWhitespaceWhitespace(r, at, c, <<>>)

\* Tokenizer._handle_whitespace_both
HandleWhitespaceBoth(r, at, c) ==
    IF c = "\n" THEN Lexed(r, "ok", <<Token(at, "NEWLINE", <<c>>)>>)
    ELSE HandleWhitespaceBothLoop(r, at, c, <<>>)

\* self._handle_whitespace, the handler Tokenizer.__init__ picks for the policy
HandleWhitespace(policy, r, at, c) ==
    CASE policy = "BOTH" -> HandleWhitespaceBoth(r, at, c)
      [] policy = "NEWLINE" -> HandleWhitespaceNewline(r, at, c)
      [] policy = "WHITESPACE" -> HandleWhitespaceWhitespace(r, at, c, <<>>)
      [] OTHER -> HandleWhitespaceNone(r, at, c)

\* Tokenizer._read_single_quote
RECURSIVE ReadSingleQuote(_, _, _)
ReadSingleQuote(r, at, content) ==
    Bind(Get(r), LAMBDA g :
    Bind(Get(g.rd), LAMBDA h :
    Bind(Unget(h.rd), LAMBDA u :
    IF g.st # "ok" THEN Lexed(g.rd, g.st, <<>>)
    ELSE IF g.v = None THEN Lexed(g.rd, "UnexpectedEOF", <<>>)
    ELSE IF g.v = "'"
         THEN IF h.st # "ok" THEN Lexed(h.rd, h.st, <<>>)
              ELSE IF h.v = "'" THEN ReadSingleQuote(h.rd, at, Append(content, h.v))
              ELSE IF h.v = None THEN Lexed(h.rd, "ok", <<Token(at, "TEXT", content)>>)
              ELSE Lexed(u.rd, u.st, IF u.st = "ok" THEN <<Token(at, "TEXT", content)>>
                                     ELSE <<>>)
    ELSE ReadSingleQuote(g.rd, at, Append(content, g.v)))))

\* Tokenizer._read_double_quote
RECURSIVE ReadDoubleQuote(_, _, _)
ReadDoubleQuote(r, at, content) ==
    Bind(Get(r), LAMBDA g :
    Bind(Expand(g.rd, <<>>, TRUE), LAMBDA e :
    Bind(GetQuoted(g.rd), LAMBDA k :
    IF g.st # "ok" THEN Lexed(g.rd, g.st, <<>>)
    ELSE IF g.v = None THEN Lexed(g.rd, "UnexpectedEOF", <<>>)
    ELSE IF g.v = "\"" THEN Lexed(g.rd, "ok", <<Token(at, "TEXT", content)>>)
    ELSE IF g.v = "$"
         THEN IF e.st # "ok" THEN Lexed(e.rd, e.st, <<>>)
              ELSE ReadDoubleQuote(e.rd, at, content \o e.v)
    ELSE IF g.v = "\\"
         THEN IF k.st # "ok" THEN Lexed(k.rd, k.st, <<>>)
              ELSE ReadDoubleQuote(k.rd, at, Append(content, k.v))
    ELSE ReadDoubleQuote(g.rd, at, Append(content, g.v)))))

\* Tokenizer._read_section
RECURSIVE ReadSection(_, _, _)
ReadSection(r, at, content) ==
    Bind(Get(r), LAMBDA g :
    IF g.st # "ok" THEN Lexed(g.rd, g.st, <<>>)
    ELSE IF g.v = None THEN Lexed(g.rd, "UnexpectedEOF", <<>>)
    ELSE IF g.v = "]" THEN Lexed(g.rd, "ok", <<Token(at, "SECTION", content)>>)
    ELSE IF g.v = LineNoObj THEN Lexed(g.rd, "TypeError", <<>>)
    ELSE IF IsSpace(g.v) THEN Lexed(g.rd, "WhitespaceInSection", <<>>)
    ELSE ReadSection(g.rd, at, Append(content, g.v)))

\* Tokenizer._next_token, the loop that drops a comment: to the end of input
\* or past the newline
RECURSIVE SkipComment(_)
SkipComment(r) ==
    Bind(Get(r), LAMBDA g :
    IF g.st # "ok" \/ g.v = None \/ g.v = "\n" THEN g ELSE SkipComment(g.rd))

\* Tokenizer._next_token, the loop that reads the rest of a bare word
RECURSIVE ReadWord(_, _, _, _)
ReadWord(r, at, content, break_chars) ==
    Bind(Get(r), LAMBDA g :
    Bind(Unget(g.rd), LAMBDA u :
    IF g.st # "ok" THEN Lexed(g.rd, g.st, <<>>)
    ELSE IF g.v = None THEN Lexed(g.rd, "ok", <<Token(at, "TEXT", content)>>)
    ELSE IF g.v = LineNoObj THEN Lexed(g.rd, "TypeError", <<>>)
    ELSE IF IsSpace(g.v) \/ g.v \in break_chars
         THEN Lexed(u.rd, u.st, IF u.st = "ok" THEN <<Token(at, "TEXT", content)>> ELSE <<>>)
    ELSE ReadWord(g.rd, at, Append(content, g.v), break_chars)))

\* Tokenizer._next_token: new holds the tokens it appends to self._tokens.  The
\* branch of a bare word appends its token without returning, so the loop goes
\* on to the token after it; what was appended stays when a later pass raises.
RECURSIVE NextToken(_, _, _)
NextToken(r, policy, single_tokens) ==
    Bind(At(r), LAMBDA at :
    Bind(Get(r), LAMBDA g :
    Bind(HandleWhitespace(policy, g.rd, at, g.v), LAMBDA w :
    Bind(SkipComment(g.rd), LAMBDA k :
    Bind(Expand(g.rd, <<>>, TRUE), LAMBDA e :
    IF g.st # "ok" THEN Lexed(g.rd, g.st, <<>>)
    ELSE IF g.v = None THEN Lexed(g.rd, "ok", <<Token(at, "EOF", <<>>)>>)
    ELSE IF g.v = LineNoObj THEN Lexed(g.rd, "TypeError", <<>>)
    ELSE IF IsSpace(g.v)
         THEN IF w.st # "ok" \/ w.new # <<>> THEN w
              ELSE NextToken(w.rd, policy, single_tokens)
    ELSE IF g.v \in {"#", ";"}
         THEN IF k.st # "ok" THEN Lexed(k.rd, k.st, <<>>)
              ELSE NextToken(k.rd, policy, single_tokens)
    ELSE IF g.v = "$"
         THEN IF e.st # "ok" THEN Lexed(e.rd, e.st, <<>>)
              ELSE Lexed(e.rd, "ok", <<Token(at, "TEXT", e.v)>>)
    ELSE IF g.v \in SingleTokens(single_tokens)
         THEN Lexed(g.rd, "ok", <<Token(at, SingleCharacterType(g.v), <<g.v>>)>>)
    ELSE IF g.v = "[" THEN ReadSection(g.rd, at, <<>>)
    ELSE IF g.v = "\"" THEN ReadDoubleQuote(g.rd, at, <<>>)
    ELSE IF g.v = "'" THEN ReadSingleQuote(g.rd, at, <<>>)
    ELSE Bind(ReadWord(g.rd, at, <<g.v>>, BreakChars(single_tokens)), LAMBDA word :
         Bind(NextToken(word.rd, policy, single_tokens), LAMBDA next :
         IF word.st # "ok" THEN word
         ELSE Lexed(next.rd, next.st, word.new \o next.new))))))))

(***************************************************************************)
(* Tokenizer.tokens_are and Tokenizer.peek_token                           *)
(*                                                                         *)
(* A pattern element is [alt, kinds]: a TokenType (alt false, one kind) or *)
(* a list of TokenTypes (alt true).  A result is [rd, tokens, st, taken,   *)
(* i]: st is "ok" (the output is returned), "nomatch" (None is returned),  *)
(* "hang" or the exception raised.                                         *)
(***************************************************************************)
One(kind) == [alt |-> FALSE, kinds |-> {kind}]
AnyOf(kinds) == [alt |-> TRUE, kinds |-> kinds]
IsOptional(arg) == arg = One("OPTIONAL")

Matching(r, toks, st, taken, i) ==
    [rd |-> r, tokens |-> toks, st |-> st, taken |-> taken, i |-> i]

\* Tokenizer._ensure_n_tokens
RECURSIVE EnsureNTokens(_, _, _)
EnsureNTokens(r, toks, n) ==
    IF Len(toks) > n THEN Lexed(r, "ok", toks)
    ELSE Bind(NextToken(r, whitespace, single), LAMBDA t :
         IF t.st # "ok" THEN Lexed(t.rd, t.st, toks \o t.new)
         ELSE EnsureNTokens(t.rd, toks \o t.new, n))

\* self._tokens[i].is_a(arg) for an arg that is a TokenType or a list
IsAArg(token, arg) == ~arg.alt /\ \E kind \in arg.kinds : IsA(token, kind)

\* True in [self._tokens[i].is_a(t) for t in arg]
IsAnyOf(token, arg) == \E kind \in arg.kinds : IsA(token, kind)

\* tokens_are, the loop of an OPTIONAL element:
\*   while self._tokens[i].is_a(arg): i = i + 1; self._ensure_n_tokens(i)
\* Past an EOF token every token is an EOF token: an arg that an EOF token
\* is_a never ends the loop.
RECURSIVE OptionalRun(_, _, _, _)
OptionalRun(r, toks, i, arg) ==
    IF IsAArg(toks[i + 1], arg)
    THEN IF toks[i + 1].type = "EOF" THEN Matching(r, toks, "hang", <<>>, i)
         ELSE Bind(EnsureNTokens(r, toks, i + 1), LAMBDA e :
              IF e.st # "ok" THEN Matching(e.rd, e.new, e.st, <<>>, i + 1)
              ELSE OptionalRun(e.rd, e.new, i + 1, arg))
    ELSE Matching(r, toks, "ok", <<>>, i)

\* A tokens_are that appends to the output as it goes: a failed attempt
\* leaves the tokens matched so far in it.
NoMatchKeepsTaken(r, toks, taken, i) == Matching(r, toks, "nomatch", taken, 0)

\* A tokens_are that slices the queue on every return: a failed attempt
\* drops the tokens it had matched.
NoMatchDropsTokens(r, toks, taken, i) ==
    Matching(r, SubSeq(toks, i + 1, Len(toks)), "nomatch", <<>>, 0)

\* tokens_are, return None: the queue stays as the look-ahead left it
NoMatch(r, toks, taken, i) == Matching(r, toks, "nomatch", <<>>, 0)

\* A tokens_are that also outputs the tokens an OPTIONAL element absorbed.
MatchedOutputsAbsorbed(r, toks, taken, i) ==
    Matching(r, SubSeq(toks, i + 1, Len(toks)), "ok", SubSeq(toks, 1, i), i)

\* tokens_are, the end: the matched tokens go to the output, the first i
\* tokens leave the queue
Matched(r, toks, taken, i) ==
    Matching(r, SubSeq(toks, i + 1, Len(toks)), "ok", taken, i)

\* Tokenizer.tokens_are, from the head of "for arg in args"
RECURSIVE TokensAre(_, _, _, _, _, _)
TokensAre(r, toks, args, i, taken, last_was_optional) ==
    IF args = <<>>
    THEN IF last_was_optional THEN Matching(r, toks, "DanglingOptional", <<>>, i)
         ELSE Matched(r, toks, taken, i)
    ELSE Bind(Head(args), LAMBDA arg :
         Bind(EnsureNTokens(r, toks, i), LAMBDA e :
         Bind(OptionalRun(e.rd, e.new, i, arg), LAMBDA o :
         IF e.st # "ok" THEN Matching(e.rd, e.new, e.st, <<>>, i)
         ELSE IF last_was_optional
              THEN IF o.st # "ok" THEN o
                   ELSE TokensAre(o.rd, o.tokens, Tail(args), o.i, taken, IsOptional(arg))
         ELSE IF IsOptional(arg) THEN TokensAre(e.rd, e.new, Tail(args), i, taken, TRUE)
         ELSE IF (arg.alt /\ IsAnyOf(e.new[i + 1], arg))
                 \/ (~arg.alt /\ IsAArg(e.new[i + 1], arg))
              THEN TokensAre(e.rd, e.new, Tail(args), i + 1,
                             Append(taken, e.new[i + 1]), FALSE)
         ELSE NoMatch(e.rd, e.new, taken, i))))

\* Tokenizer.peek_token: new is the queue, of which the first token is returned
PeekToken(r, toks) ==
    IF toks = <<>>
    THEN Bind(NextToken(r, whitespace, single), LAMBDA t : Lexed(t.rd, t.st, toks \o t.new))
    ELSE Lexed(r, "ok", toks)

(***************************************************************************)
(* The tokenizer as a state machine: a Tokenizer over a Reader over a      *)
(* text, and a caller that calls tokens_are and peek_token until a call    *)
(* raises or never returns.                                                *)
(***************************************************************************)
MaxFrags == 3       \* an input text is made of at most this many fragments
MaxConsumed == 3    \* the caller stops once this many tokens have left the queue

\* All texts made of at most n of the fragments.
RECURSIVE TextsOf(_, _)
TextsOf(fragments, n) ==
    IF n = 0 THEN {<<>>}
    ELSE LET shorter == TextsOf(fragments, n - 1)
         IN shorter \cup {t \o f : t \in shorter, f \in fragments}

Fragments == {<<" ">>, <<"\n">>, <<"A">>, <<"=">>, <<"$">>}

Policies == {"NONE", "NEWLINE", "WHITESPACE", "BOTH"}

\* The environment the resolver looks names up in: A and N have values, any
\* other name has none.
Env == (<<"A">> :> <<"'", "&">>) @@ (<<"N">> :> <<"-", "4">>)

\* The patterns the caller tries.
Patterns ==
    {<<One("TEXT")>>,
     <<One("EOF")>>,
     <<One("WORD"), One("EQ"), One("TEXT"), One("EOL")>>,
     <<One("OPTIONAL"), One("ANY_WHITESPACE"), One("TEXT")>>,
     <<AnyOf({"NEWLINE", "WHITESPACE"}), One("OPTIONAL"), One("WHITESPACE"), One("ANY")>>,
     <<One("TEXT"), One("OPTIONAL")>>,
     <<One("OPTIONAL"), One("EOL"), One("TEXT")>>}

\* The output lists the caller passes: an empty one, or one that holds a token.
Held == Token(<<>>, "EOF", <<>>)
Outputs == {<<>>, <<Held>>}

Running == call.st \in {"ok", "nomatch"}

\* What a caller sees of a call: how it ended and the tokens it returned.
Seen(st, returned) == [st |-> st, returned |-> returned]

\* The first n items of a sequence.
Front(seq, n) == SubSeq(seq, 1, n)

IsPrefix(short, long) ==
    Len(short) <= Len(long) /\ Front(long, Len(short)) = short

Init ==
    /\ \E text \in TextsOf(Fragments, MaxFrags) :
          /\ input = [text |-> text]
          /\ reader = NewReader(text)
    /\ env = Env
    /\ whitespace \in Policies
    /\ single = {"="}
    /\ tokens = <<>>
    /\ output = <<>>
    /\ consumed = 0
    /\ shadow = [rd |-> reader, tokens |-> <<>>]
    /\ call = [op |-> "Tokenizer", st |-> "ok", args |-> <<>>, out |-> <<>>, i |-> 0,
               result |-> Seen("ok", <<>>), alone |-> Seen("ok", <<>>)]

\* tokens_are(*args, output=out)
TokensAreCall(args) ==
    /\ Running
    /\ consumed < MaxConsumed
    /\ \E m \in {TokensAre(reader, tokens, args, 0, <<>>, FALSE)},
          s \in {TokensAre(shadow.rd, shadow.tokens, args, 0, <<>>, FALSE)},
          out \in Outputs :
          /\ reader' = m.rd
          /\ tokens' = m.tokens
          /\ output' = out \o m.taken
          /\ consumed' = consumed + (IF m.st = "ok" THEN m.i ELSE 0)
          /\ shadow' = IF m.st = "nomatch" THEN shadow
                       ELSE [rd |-> s.rd, tokens |-> s.tokens]
          /\ call' = [op |-> "tokens_are", st |-> m.st, args |-> args, out |-> out,
                      i |-> m.i, result |-> Seen(m.st, m.taken),
                      alone |-> Seen(s.st, s.taken)]
    /\ UNCHANGED <<env, whitespace, single, input>>

\* peek_token()
PeekTokenCall ==
    /\ Running
    /\ consumed < MaxConsumed
    /\ \E p \in {PeekToken(reader, tokens)},
          s \in {PeekToken(shadow.rd, shadow.tokens)} :
          /\ reader' = p.rd
          /\ tokens' = p.new
          /\ shadow' = [rd |-> s.rd, tokens |-> s.new]
          /\ call' = [op |-> "peek_token", st |-> p.st, args |-> <<>>, out |-> <<>>,
                      i |-> 0,
                      result |-> Seen(p.st, IF p.st = "ok" THEN <<p.new[1]>> ELSE <<>>),
                      alone |-> Seen(s.st, IF s.st = "ok" THEN <<s.new[1]>> ELSE <<>>)]
    /\ UNCHANGED <<env, whitespace, single, output, consumed, input>>

Next ==
    \/ \E args \in Patterns : TokensAreCall(args)
    \/ PeekTokenCall

Spec == Init /\ [][Next]_vars


(***************************************************************************)
(* Properties of the matcher                                               *)
(***************************************************************************)
\* The step is a tokens_are call that returned None.
ReturnedNone == call'.op = "tokens_are" /\ call'.st = "nomatch"

\* The step is a tokens_are call that returned its output.
ReturnedOutput == call'.op = "tokens_are" /\ call'.st = "ok"

\* C1 as stated: a tokens_are call that returns None leaves the pending queue
\* the same sequence, the Reader cursor where it was, and the output as it
\* was passed.
C1_NoMatchChangesNothing ==
    [][ReturnedNone =>
          /\ tokens' = tokens
          /\ reader' = reader
          /\ output' = call'.out]_vars

\* C1, amended: a tokens_are call that returns None removes and reorders
\* nothing: the queue it found is a prefix of the queue it leaves, the queue
\* and the Reader it leaves are those that lexing ahead from where it started
\* gives (so the cursor is where it was when the queue did not grow), and
\* nothing is appended to the output.
C1_NoMatchOnlyLooksAhead ==
    [][ReturnedNone =>
          LET ahead == EnsureNTokens(reader, tokens, Len(tokens') - 1)
          IN /\ IsPrefix(tokens, tokens')
             /\ ahead.st = "ok" /\ ahead.new = tokens' /\ ahead.rd = reader'
             /\ (tokens' = tokens => reader' = reader)
             /\ output' = call'.out]_vars

\* A failed tokens_are, called with an output that holds a token, has left
\* tokens in the queue that a Tokenizer without the failed calls has not lexed.
C1_Witness ==
    /\ call.op = "tokens_are" /\ call.st = "nomatch"
    /\ call.out # <<>>
    /\ Len(tokens) > Len(shadow.tokens)

\* C2: failed tokens_are calls are unobservable: every call (tokens_are or
\* peek_token) ends the same way and returns the same tokens (kind, content,
\* location) as the same call on a Tokenizer that went through the same calls
\* without the ones that returned None.
C2_FailedCallsUnobservable == call.result = call.alone

\* A tokens_are call has returned tokens on a Tokenizer whose queue had been
\* filled further by earlier failed calls.
C2_Witness ==
    /\ call.op = "tokens_are" /\ call.st = "ok"
    /\ call.result.returned # <<>>
    /\ Len(tokens) > Len(shadow.tokens)

\* The sequences of tokens a pattern lets into the output when it matches the
\* whole of toks: one token per plain element, in order, each of a kind the
\* element names; the element after OPTIONAL matches any number of tokens of
\* its kind and gives none of them to the output.
RECURSIVE MatchedBy(_, _, _)
MatchedBy(toks, args, quantified) ==
    IF args = <<>>
    THEN IF toks = <<>> /\ ~quantified THEN {<<>>} ELSE {}
    ELSE IF quantified
    THEN UNION {MatchedBy(SubSeq(toks, n + 1, Len(toks)), Tail(args), FALSE) :
                  n \in {n \in 0..Len(toks) :
                           \A j \in 1..n : IsAnyOf(toks[j], Head(args))}}
    ELSE IF IsOptional(Head(args))
    THEN MatchedBy(toks, Tail(args), TRUE)
    ELSE IF toks # <<>> /\ IsAnyOf(Head(toks), Head(args))
    THEN {<<Head(toks)>> \o rest : rest \in MatchedBy(Tail(toks), Tail(args), FALSE)}
    ELSE {}

\* C3: a tokens_are call that succeeds takes i tokens from the front of the
\* queue (as look-ahead filled it); the pattern matches these i tokens, the
\* tokens of its plain elements are appended to the output in pattern order,
\* those of its OPTIONAL-quantified elements are not, and the rest of the
\* queue follows in the same order.
C3_MatchTakesAndOutputs ==
    [][ReturnedOutput =>
          LET ahead == EnsureNTokens(reader, tokens, call'.i - 1).new
              removed == Front(ahead, call'.i)
              taken == call'.result.returned
          IN /\ Len(ahead) >= call'.i
             /\ taken \in MatchedBy(removed, call'.args, FALSE)
             /\ output' = call'.out \o taken
             /\ IsPrefix(ahead, removed \o tokens')]_vars

\* A tokens_are call has succeeded with an output that held a token, a token
\* to append, and a token that an OPTIONAL element absorbed.
C3_Witness ==
    /\ call.op = "tokens_are" /\ call.st = "ok"
    /\ call.out # <<>>
    /\ call.result.returned # <<>>
    /\ call.i > Len(call.result.returned)

\* The input is consumed: the Reader is at its end and the queue holds no
\* token but EOF tokens.
Exhausted ==
    /\ Running
    /\ Get(reader).v = None
    /\ \A k \in 1..Len(tokens) : tokens[k].type = "EOF"

\* The step is a tokens_are(EOF) call or a peek_token call.
EofCall ==
    \/ call'.op = "peek_token"
    \/ call'.op = "tokens_are" /\ call'.args = <<One("EOF")>>

\* C15: once the input is consumed, a tokens_are(EOF) call and a peek_token
\* call return, with one EOF token, and leave the input consumed and the
\* Reader as it was: the same holds for the call after it, any number of
\* times.
C15_EofIdempotent ==
    [][(Exhausted /\ EofCall)
          => /\ call'.st = "ok"
             /\ Len(call'.result.returned) = 1
             /\ call'.result.returned[1].type = "EOF"
             /\ call'.result.returned[1].at = <<>>
             /\ Exhausted'
             /\ reader' = reader]_vars

\* tokens_are(EOF) has succeeded for the second time on the text "A": the
\* three tokens that have left the queue are the TEXT token and two EOF
\* tokens.
C15_Witness ==
    /\ input.text = <<"A">>
    /\ call.op = "tokens_are" /\ call.args = <<One("EOF")>> /\ call.st = "ok"
    /\ consumed = 3

(***************************************************************************)
(* The expansion engine as a state machine: an Expansion over a Reader     *)
(* over a text, and a caller that gets characters and, once it has got a   *)
(* "$", calls expand.                                                      *)
(***************************************************************************)
MaxPieces == 2    \* a default body is made of at most this many pieces
MaxRaw == 3       \* an unstructured text has at most this many characters after "$"

\* The number of characters in the first n lines.
RECURSIVE SumLens(_, _)
SumLens(lines, n) == IF n = 0 THEN 0 ELSE SumLens(lines, n - 1) + Len(lines[n])

\* The number of characters of the text that lie before the Reader cursor
\* (line self._buffer[self._line][0], position self._pos).
Offset(r) ==
    IF r.line < 0 \/ r.line >= Len(r.buffer) THEN SumLens(r.source, Len(r.source))
    ELSE SumLens(r.source, r.buffer[r.line + 1].no - 1) + r.pos - 1

\* A piece of a default body: its text, the text it stands for, and whether
\* it resolves; a bare piece ends where the name ends.
Piece(src, val, ok, bare) == [src |-> src, val |-> val, ok |-> ok, bare |-> bare]

Pieces ==
    {Piece(<<"d">>, <<"d">>, TRUE, FALSE),
     Piece(<<"\\", "}">>, <<"}">>, TRUE, FALSE),
     Piece(<<"\\", "n">>, <<"\n">>, TRUE, FALSE),
     Piece(<<"$", "{", "A", "}">>, Env[<<"A">>], TRUE, FALSE),
     Piece(<<"$", "{", "B", "}">>, <<>>, FALSE, FALSE),
     Piece(<<"$", "(", "1", "+", "2", ")">>, <<"3">>, TRUE, FALSE),
     Piece(<<"$", "{", "B", "|", "e", "}">>, <<"e">>, TRUE, FALSE),
     Piece(<<"$", "N">>, Env[<<"N">>], TRUE, TRUE)}

\* The default bodies of at most n pieces; a bare piece is not followed by a
\* piece that would lengthen its name.
RECURSIVE Bodies(_)
Bodies(n) ==
    IF n = 0 THEN {<<>>}
    ELSE LET shorter == Bodies(n - 1)
         IN shorter \cup
            UNION {{Append(b, q) : q \in {q \in Pieces : b = <<>> \/ ~b[Len(b)].bare
                                                         \/ ~IsAlnum(q.src[1])}} :
                     b \in shorter}

RECURSIVE BodySrc(_)
BodySrc(body) == IF body = <<>> THEN <<>> ELSE Head(body).src \o BodySrc(Tail(body))

RECURSIVE BodyVal(_)
BodyVal(body) == IF body = <<>> THEN <<>> ELSE Head(body).val \o BodyVal(Tail(body))

BodyResolves(body) == \A k \in 1..Len(body) : body[k].ok

\* The names a construct is written with: A and N have values, B has none,
\* and <<>> is no name at all.
Names == {<<"A">>, <<"N">>, <<"B">>, <<>>}

\* The quote lists a braced construct is written with.
QuoteLists ==
    {<<>>, <<QuoteXml>>, <<QuoteUri, QuoteXml>>, <<QuoteXml, QuoteUri>>,
     <<QuoteSql, QuoteAttr, QuoteSql>>, <<QuoteMs>>}
ShortQuoteLists == {<<>>, <<QuoteXml>>, <<QuoteSql, QuoteUri>>}

\* q1,q2,...,qn
RECURSIVE QuotesSrc(_)
QuotesSrc(quotes) ==
    IF Len(quotes) = 1 THEN quotes[1]
    ELSE quotes[1] \o <<",">> \o QuotesSrc(Tail(quotes))

\* What follows the "$": its text and how it was put together.
Construct(kind, src, name, quotes, default, body) ==
    [kind |-> kind, src |-> src, name |-> name, quotes |-> quotes,
     default |-> default, body |-> body]

Braced(name, quotes, default, body) ==
    Construct("braced",
              <<"{">> \o name
                \o (IF quotes = <<>> THEN <<>> ELSE <<":">> \o QuotesSrc(quotes))
                \o (IF default THEN <<"|">> \o BodySrc(body) ELSE <<>>)
                \o <<"}">>,
              name, quotes, default, body)

\* $(expr): the text from "(" to the matching ")"
Math(expr) == Construct("math", <<"(">> \o expr \o <<")">>, <<>>, <<>>, FALSE, <<>>)

\* Expressions with whitespace, nested expansions and nested parentheses.
Expressions ==
    {<<"7", "-", "2">>,
     <<" ", "7", " ", "/", " ", "2", " ">>,
     <<"$", "N", "*", "2">>,
     <<"$", "{", "B", "|", "3", "}", "<", "$", "(", "2", ")">>,
     <<"(", "2", ")", "%", "-", "(", "7", ")">>,
     <<"$", "B", "+", "2">>,
     <<"7", "/", "0">>}

Constructs ==
    {Construct("bare", name, name, <<>>, FALSE, <<>>) : name \in Names}
    \cup {Math(expr) : expr \in Expressions}
    \cup {Braced(name, quotes, FALSE, <<>>) : name \in Names, quotes \in QuoteLists}
    \cup {Braced(name, quotes, TRUE, body) :
            name \in Names, quotes \in ShortQuoteLists, body \in Bodies(MaxPieces)}

\* The texts before and after a construct.  What follows a bare name is no
\* character of a name.
Before == {<<>>, <<"x", "\n", "y">>}
After == {<<>>, <<" ", "z">>, <<"}">>, <<"\n">>}

\* The texts the caller expands a construct of: the text, whether it was
\* put together from a construct, the construct and the offsets of its
\* first character and of the character after its last.
StructuredInputs ==
    {[text |-> b \o <<"$">> \o c.src \o a, structured |-> TRUE, construct |-> c,
      start |-> Len(b) + 1, end |-> Len(b) + 1 + Len(c.src)] :
        b \in Before, c \in Constructs, a \in After}

RawChars == {"$", "{", "}", "(", ")", "|", ":", ",", "-", "A", "1", "\\"}

RECURSIVE RawTexts(_)
RawTexts(n) ==
    IF n = 0 THEN {<<>>}
    ELSE LET shorter == RawTexts(n - 1)
         IN shorter \cup {Append(t, c) : t \in shorter, c \in RawChars}

NoConstruct == Construct("none", <<>>, <<>>, <<>>, FALSE, <<>>)

RawInputs ==
    {[text |-> <<"$">> \o t, structured |-> FALSE, construct |-> NoConstruct,
      start |-> 0, end |-> 0] : t \in RawTexts(MaxRaw)}

ExpandInputs == StructuredInputs \cup RawInputs

\* What is kept of an expand call made with the other should_resolve.
Twin(st, rd) == [st |-> st, rd |-> rd]
NoTwin == Twin("none", <<>>)

\* A call of the caller: v is the text returned (NoneText for None, the
\* character as a text for get), from the offset of the cursor at the call.
Called(op, st, sr, v, from, twin) ==
    [op |-> op, st |-> st, sr |-> sr, v |-> v, from |-> from, twin |-> twin]

\* Expansion(reader, EnvironmentVariable(env))
ExpandInit ==
    /\ input \in ExpandInputs
    /\ reader = NewReader(input.text)
    /\ env = Env
    /\ whitespace = "NONE"
    /\ single = {}
    /\ tokens = <<>>
    /\ output = <<>>
    /\ consumed = 0
    /\ shadow = [rd |-> reader, tokens |-> <<>>]
    /\ call = Called("Expansion", "ok", FALSE, <<>>, 0, NoTwin)

\* reader.get() by the caller: up to the "$" of the construct, and after an
\* expand call that returned
GetCall ==
    /\ call.st = "ok"
    /\ call.v # NoneText \/ call.op = "expand"
    /\ input.structured => (Offset(reader) < input.start \/ call.op = "expand")
    /\ \E g \in {Get(reader)} :
          /\ reader' = g.rd
          /\ call' = Called("get", g.st, FALSE, <<g.v>>, Offset(reader), NoTwin)
    /\ UNCHANGED <<env, whitespace, single, tokens, output, consumed, shadow, input>>

\* expansion.expand(at, should_resolve) by the caller that has just got "$"
ExpandCall(should_resolve) ==
    /\ call.op = "get" /\ call.st = "ok" /\ call.v = <<"$">>
    /\ input.structured => Offset(reader) = input.start
    /\ \E e \in {Expand(reader, <<>>, should_resolve)},
          t \in {Expand(reader, <<>>, ~should_resolve)} :
          /\ reader' = e.rd
          /\ call' = Called("expand", e.st, should_resolve, e.v, Offset(reader),
                            Twin(t.st, t.rd))
    /\ UNCHANGED <<env, whitespace, single, tokens, output, consumed, shadow, input>>

ExpandNext ==
    \/ GetCall
    \/ \E should_resolve \in BOOLEAN : ExpandCall(should_resolve)

SpecExpand == ExpandInit /\ [][ExpandNext]_vars

(***************************************************************************)
(* Properties of the expansion engine                                      *)
(***************************************************************************)
\* An expand call on a construct has returned.
Expanded == call.op = "expand" /\ call.st = "ok" /\ input.structured

\* An expand call with should_resolve true on a construct has ended.
Resolving == call.op = "expand" /\ call.sr /\ input.structured

\* The name of the construct has a value.
NameResolves == input.construct.name \in DOMAIN Env

\* The character after the construct, None at the end of the text.
Follower ==
    IF input.end < Len(input.text) THEN input.text[input.end + 1] ELSE None

UnresolvedErrors == {"CannotFindName", "CannotResolve"}

\* C4: after an expand call that returns, the cursor is just past the
\* construct: the next get() returns the character that follows it.
C4_CursorPastConstruct ==
    Expanded => Offset(reader) = input.end /\ Get(reader).v = Follower

\* C5: when expand returns with should_resolve true and with should_resolve
\* false from the same cursor, the two calls leave the same Reader: the same
\* characters consumed, the same cursor.
C5_SameConsumption ==
    (call.op = "expand" /\ call.st = "ok" /\ call.twin.st = "ok")
        => call.twin.rd = reader

\* Both calls have returned from a braced construct with a default body that
\* holds a nested expansion, past which the cursor has moved.
C5_Witness ==
    /\ Expanded /\ call.twin.st = "ok"
    /\ input.construct.default
    /\ \E k \in 1..Len(input.construct.body) : input.construct.body[k].src[1] = "$"
    /\ Offset(reader) = input.end
    /\ input.end > input.start + 1

\* qn(...q2(q1(v))...): the last quote applied to what the quotes before it
\* give.
RECURSIVE Composed(_, _)
Composed(quotes, v) ==
    IF quotes = <<>> THEN [st |-> "ok", v |-> v]
    ELSE LET inner == Composed(Front(quotes, Len(quotes) - 1), v)
         IN IF inner.st # "ok" THEN inner
            ELSE ApplyQuote(quotes[Len(quotes)], inner.v)

\* The value of the construct's name, through the construct's quotes.
QuotedValue == Composed(input.construct.quotes, Env[input.construct.name])

\* C6: ${NAME|default}, with or without quotes, with should_resolve true and
\* a NAME that resolves: expand returns the (quoted) value of NAME, whether
\* or not the nested expansions of the default body resolve, and leaves the
\* cursor past the "}" that closes the construct.
C6_ResolvedIgnoresDefault ==
    (Resolving /\ input.construct.default /\ NameResolves /\ QuotedValue.st = "ok")
        => /\ call.st = "ok"
           /\ call.v = QuotedValue.v
           /\ Offset(reader) = input.end

\* Such a call has returned past a default body that holds a nested expansion
\* that does not resolve and an escaped "}".
C6_Witness ==
    /\ Resolving /\ input.construct.default /\ NameResolves
    /\ call.st = "ok"
    /\ \E k \in 1..Len(input.construct.body) : ~input.construct.body[k].ok
    /\ \E k \in 1..Len(input.construct.body) : input.construct.body[k].val = <<"}">>

\* C7: ${NAME|default} with should_resolve true and a NAME that does not
\* resolve: expand returns the default body with each nested expansion
\* replaced by its value and each escape by its character; when a nested
\* expansion does not resolve, the call fails as unresolved.
C7_UnresolvedGivesDefault ==
    (Resolving /\ input.construct.default /\ ~NameResolves)
        => IF BodyResolves(input.construct.body)
           THEN /\ call.st = "ok"
                /\ call.v = BodyVal(input.construct.body)
                /\ Offset(reader) = input.end
           ELSE call.st \in UnresolvedErrors

\* Such a call has returned the text of a default body made of an escaped "}"
\* and a nested expansion.
C7_Witness ==
    /\ Resolving /\ input.construct.default /\ ~NameResolves
    /\ call.st = "ok"
    /\ Len(input.construct.body) = 2
    /\ input.construct.body[1].val = <<"}">>
    /\ input.construct.body[2].src[1] = "$"
    /\ call.v = <<"}">> \o input.construct.body[2].val

\* C8: $NAME, ${NAME} and ${NAME:quotes} with no name to read or a name
\* without value: with should_resolve true expand raises the
\* unresolved-variable error, with should_resolve false it raises none.
C8_UnresolvedRaises ==
    (call.op = "expand" /\ input.structured /\ input.construct.kind \in {"bare", "braced"}
        /\ ~input.construct.default /\ ~NameResolves)
        => IF call.sr THEN call.st \in UnresolvedErrors
           ELSE call.st = "ok" /\ call.twin.st \in UnresolvedErrors

\* expand has raised on a braced construct with quotes whose name has no
\* value, where the call with should_resolve false returns.
C8_Witness ==
    /\ Resolving /\ ~input.construct.default /\ ~NameResolves
    /\ input.construct.kind = "braced"
    /\ input.construct.name # <<>>
    /\ input.construct.quotes # <<>>
    /\ call.st = "CannotResolve"
    /\ call.twin.st = "ok"

\* C9: ${NAME:q1,...,qn} with a NAME that resolves to v: expand returns
\* qn(...q2(q1(v))...), and raises what the first failing quote raises.
C9_QuotesLeftToRight ==
    (Resolving /\ NameResolves /\ input.construct.quotes # <<>>)
        => IF QuotedValue.st = "ok"
           THEN call.st = "ok" /\ call.v = QuotedValue.v
           ELSE call.st = QuotedValue.st

\* expand has returned the value through two quotes that give another text
\* in the other order.
C9_Witness ==
    /\ Resolving /\ NameResolves
    /\ call.st = "ok"
    /\ Len(input.construct.quotes) = 2
    /\ call.v # Composed(<<input.construct.quotes[2], input.construct.quotes[1]>>,
                         Env[input.construct.name]).v

(***************************************************************************)
(* Arithmetic expansion: the same caller over the texts $(expr), expr made *)
(* of one-digit literals, binary operators and parentheses.                *)
(***************************************************************************)
MaxOperands == 3    \* an expression without parentheses has at most this many operands

Literals == {"0", "2", "7"}
Operators == {"+", "-", "*", "/", "%", "<", ">"}

\* literal (operator literal)*, of at most n literals
RECURSIVE Flat(_)
Flat(n) ==
    IF n = 1 THEN {<<a>> : a \in Literals}
    ELSE LET shorter == Flat(n - 1)
         IN shorter \cup {e \o <<op, a>> : e \in shorter, op \in Operators, a \in Literals}

\* (literal operator literal) operator literal, and the other way round
Grouped ==
    LET pairs == {<<"(", a, op, b, ")">> : a \in Literals, op \in Operators, b \in Literals}
    IN {g \o <<op, a>> : g \in pairs, op \in Operators, a \in Literals}
       \cup {<<a, op>> \o g : g \in pairs, op \in Operators, a \in Literals}

MathInputs ==
    {[text |-> <<"$", "(">> \o e \o <<")">>, structured |-> TRUE, construct |-> Math(e),
      start |-> 1, end |-> Len(e) + 3] : e \in Flat(MaxOperands) \cup Grouped}

\* Expansion(reader, EnvironmentVariable(env)) over $(expr)
MathInit ==
    /\ input \in MathInputs
    /\ reader = NewReader(input.text)
    /\ env = Env
    /\ whitespace = "NONE"
    /\ single = {}
    /\ tokens = <<>>
    /\ output = <<>>
    /\ consumed = 0
    /\ shadow = [rd |-> reader, tokens |-> <<>>]
    /\ call = Called("Expansion", "ok", FALSE, <<>>, 0, NoTwin)

SpecMath == MathInit /\ [][ExpandNext]_vars

(***************************************************************************)
(* Properties of arithmetic expansion                                      *)
(***************************************************************************)
\* How loosely an operator binds: * / % tightest, then + -, then < and >.
Looseness(op) ==
    CASE op \in {"*", "/", "%"} -> 1
      [] op \in {"+", "-"} -> 2
      [] op \in {"<", ">"} -> 3

\* The number of parentheses open before the i-th character.
ParenDepth(e, i) ==
    Cardinality({k \in 1..(i - 1) : e[k] = "("})
    - Cardinality({k \in 1..(i - 1) : e[k] = ")"})

\* The quotient cut toward zero: l = q * r + rest with rest smaller than r
\* and of the sign of l.
Quotient(l, r) ==
    CHOOSE q \in (0 - Abs(l))..Abs(l) :
        LET rest == l - q * r
        IN Abs(rest) < Abs(r) /\ (rest = 0 \/ (rest < 0) = (l < 0))

\* Python's remainder: l = q * r + m with m smaller than r and of the sign
\* of r.
Remainder(l, r) ==
    CHOOSE m \in (0 - Abs(r))..Abs(r) :
        /\ Abs(m) < Abs(r)
        /\ m = 0 \/ (m < 0) = (r < 0)
        /\ \E q \in (0 - Abs(l) - 1)..(Abs(l) + 1) : l = q * r + m

\* The value of an expression read by the rules: parentheses first, then the
\* expression splits at its loosest operator outside parentheses, at the
\* last one among equally loose ones (left to right).  No value where a
\* division or remainder by zero occurs.
RECURSIVE Value(_)
Value(e) ==
    LET top == {i \in 1..Len(e) : e[i] \in Operators /\ ParenDepth(e, i) = 0}
    IN IF top = {}
       THEN IF e[1] = "(" THEN Value(SubSeq(e, 2, Len(e) - 1))
            ELSE [ok |-> TRUE, n |-> DigitVal(e[1])]
       ELSE LET i == CHOOSE i \in top :
                       \A j \in top : \/ Looseness(e[j]) < Looseness(e[i])
                                      \/ (Looseness(e[j]) = Looseness(e[i]) /\ j <= i)
                l == Value(SubSeq(e, 1, i - 1))
                r == Value(SubSeq(e, i + 1, Len(e)))
            IN IF ~l.ok \/ ~r.ok \/ (e[i] \in {"/", "%"} /\ r.n = 0)
               THEN [ok |-> FALSE, n |-> 0]
               ELSE [ok |-> TRUE,
                     n |-> CASE e[i] = "+" -> l.n + r.n
                             [] e[i] = "-" -> l.n - r.n
                             [] e[i] = "*" -> l.n * r.n
                             [] e[i] = "/" -> Quotient(l.n, r.n)
                             [] e[i] = "%" -> Remainder(l.n, r.n)
                             [] e[i] = "<" -> IF l.n <= r.n THEN l.n ELSE r.n
                             [] e[i] = ">" -> IF l.n >= r.n THEN l.n ELSE r.n]

\* The expression of the construct: what stands between "$(" and ")".
Expression == SubSeq(input.construct.src, 2, Len(input.construct.src) - 1)

MaxMinus == 3    \* an operand is preceded by at most this many "-"

\* The environment of these texts: the value of N starts with one "-", the
\* value of M with two.
SignedEnv == (<<"N">> :> <<"-", "4">>) @@ (<<"M">> :> <<"-", "-", "7">>)

\* What an operand is written with after its "-": the text, the number of
\* "-" at the head of the text an expansion gives, and the integer that
\* stands after them.
Base(src, dashes, value) == [src |-> src, dashes |-> dashes, value |-> value]

Bases ==
    {Base(<<"4">>, 0, 4),
     Base(<<"7">>, 0, 7),
     Base(<<"0">>, 0, 0),
     Base(<<"$", "N">>, 1, 4),
     Base(<<"$", "{", "M", "}">>, 2, 7),
     Base(<<"(", "7", "-", "2", ")">>, 0, 5)}

\* k times "-", each followed by a blank when spaced
RECURSIVE MinusRun(_, _)
MinusRun(k, spaced) ==
    IF k = 0 THEN <<>>
    ELSE (IF spaced THEN <<"-", " ">> ELSE <<"-">>) \o MinusRun(k - 1, spaced)

Operands ==
    {[src |-> MinusRun(k, spaced) \o b.src, minus |-> k, dashes |-> b.dashes,
      value |-> b.value] :
        k \in 0..MaxMinus, spaced \in BOOLEAN, b \in Bases}

SignedOperators == {"*", "%", "-", "<"}

SignedInputs ==
    {[text |-> <<"$", "(">> \o l.src \o <<op>> \o r.src \o <<")">>,
      structured |-> TRUE,
      construct |-> Math(l.src \o <<op>> \o r.src),
      start |-> 1, end |-> Len(l.src) + Len(r.src) + 4,
      left |-> l, op |-> op, right |-> r] :
        l \in Operands, op \in SignedOperators, r \in Operands}

\* Expansion(reader, EnvironmentVariable(env)) over $(operand op operand)
SignedInit ==
    /\ input \in SignedInputs
    /\ reader = NewReader(input.text)
    /\ env = SignedEnv
    /\ whitespace = "NONE"
    /\ single = {}
    /\ tokens = <<>>
    /\ output = <<>>
    /\ consumed = 0
    /\ shadow = [rd |-> reader, tokens |-> <<>>]
    /\ call = Called("Expansion", "ok", FALSE, <<>>, 0, NoTwin)

SpecSigned == SignedInit /\ [][ExpandNext]_vars

(***************************************************************************)
(* Properties of unary minus                                               *)
(***************************************************************************)
\* v negated n times
RECURSIVE NegatedTimes(_, _)
NegatedTimes(v, n) == IF n = 0 THEN v ELSE 0 - NegatedTimes(v, n - 1)

\* What an operand contributes: its integer, negated once for every "-"
\* before it and once for every "-" at the head of the expanded text.
Contribution(o) == NegatedTimes(o.value, o.minus + o.dashes)

\* The value of l op r for the operators of SignedOperators.
Applied(op, l, r) ==
    CASE op = "*" -> l * r
      [] op = "%" -> Remainder(l, r)
      [] op = "-" -> l - r
      [] op = "<" -> IF l <= r THEN l ELSE r

\* C11: in $(operand op operand) with should_resolve true, each operand
\* contributes its integer negated once per "-" directly before it and once
\* per "-" at the head of the text its $-expansion gives, and the binary
\* operator is applied to the two contributions (the negation binds to the
\* operand alone); a remainder by a zero contribution raises
\* ZeroDivisionError.
C11_UnaryMinusNegatesOperand ==
    (Resolving /\ input.construct.kind = "math")
        => IF input.op = "%" /\ Contribution(input.right) = 0
           THEN call.st = "ZeroDivisionError"
           ELSE /\ call.st = "ok"
                /\ call.v = IntToStr(Applied(input.op, Contribution(input.left),
                                             Contribution(input.right)))

\* expand has returned 16 for $N*---4 with N = -4, and 1 for -7%4, where the
\* remainder of the negated operand differs from the negated remainder.
C11_Witness ==
    /\ Resolving /\ call.st = "ok"
    /\ \/ /\ input.construct.src = <<"(", "$", "N", "*", "-", "-", "-", "4", ")">>
          /\ call.v = <<"1", "6">>
       \/ /\ input.construct.src = <<"(", "-", "7", "%", "4", ")">>
          /\ call.v = <<"1">>


(***************************************************************************)
(* The Reader as a state machine: a Reader over a text of several lines,   *)
(* and a caller that calls get, unget and at until a call raises.          *)
(* consumed is the caller's count: the characters get has returned less    *)
(* the unget calls that returned.                                          *)
(***************************************************************************)
MaxChars == 4    \* a text of the Reader has at most this many characters

ReaderChars == {"a", "b", "\n"}

RECURSIVE ReaderTexts(_)
ReaderTexts(n) ==
    IF n = 0 THEN {<<>>}
    ELSE LET shorter == ReaderTexts(n - 1)
         IN shorter \cup {Append(t, c) : t \in shorter, c \in ReaderChars}

\* The calls of a round trip; the trail keeps as many calls as it has.
RoundTripOps == <<"get", "unget", "get">>

\* A call as the trail keeps it: the value returned, the caller's count
\* before it and the Reader after it.
Step(op, v, from, rd) == [op |-> op, v |-> v, from |-> from, rd |-> rd]

\* The trail with one more call, cut to the last calls.
Trailed(trail, step) ==
    Bind(Append(trail, step), LAMBDA t :
    IF Len(t) > Len(RoundTripOps) THEN Tail(t) ELSE t)

\* A call on the Reader: before is the Reader it was made on.
ReaderCalled(op, st, v, before, trail) ==
    [op |-> op, st |-> st, v |-> v, before |-> before, trail |-> trail]

\* Reader(StringIO(text))
ReaderInit ==
    /\ \E text \in ReaderTexts(MaxChars) :
          /\ input = [text |-> text]
          /\ reader = NewReader(text)
    /\ env = Env
    /\ whitespace = "NONE"
    /\ single = {}
    /\ tokens = <<>>
    /\ output = <<>>
    /\ consumed = 0
    /\ shadow = [rd |-> reader, tokens |-> <<>>]
    /\ call = ReaderCalled("Reader", "ok", None, reader, <<>>)

\* reader.get()
ReaderGetCall ==
    /\ call.st = "ok"
    /\ \E g \in {Get(reader)} :
          /\ reader' = g.rd
          /\ consumed' = IF g.st = "ok" /\ g.v # None THEN consumed + 1 ELSE consumed
          /\ call' = ReaderCalled("get", g.st, g.v, reader,
                                  Trailed(call.trail, Step("get", g.v, consumed, g.rd)))
    /\ UNCHANGED <<env, whitespace, single, tokens, output, shadow, input>>

\* reader.unget()
ReaderUngetCall ==
    /\ call.st = "ok"
    /\ \E u \in {Unget(reader)} :
          /\ reader' = u.rd
          /\ consumed' = IF u.st = "ok" THEN consumed - 1 ELSE consumed
          /\ call' = ReaderCalled("unget", u.st, u.v, reader,
                                  Trailed(call.trail, Step("unget", u.v, consumed, u.rd)))
    /\ UNCHANGED <<env, whitespace, single, tokens, output, shadow, input>>

\* reader.at()
ReaderAtCall ==
    /\ call.st = "ok"
    /\ call.op # "at"
    /\ call' = ReaderCalled("at", "ok", At(reader), reader,
                            Trailed(call.trail, Step("at", At(reader), consumed, reader)))
    /\ UNCHANGED <<reader, env, whitespace, single, tokens, output, consumed, shadow, input>>

ReaderNext ==
    \/ ReaderGetCall
    \/ ReaderUngetCall
    \/ ReaderAtCall

SpecReader == ReaderInit /\ [][ReaderNext]_vars

(***************************************************************************)
(* Properties of the Reader                                                *)
(***************************************************************************)
\* The last three calls were get, unget, get, the first of them made
\* somewhere else than at the very start of the input.
RoundTrip ==
    /\ Len(call.trail) = Len(RoundTripOps)
    /\ \A i \in 1..Len(RoundTripOps) : call.trail[i].op = RoundTripOps[i]
    /\ call.trail[1].from > 0

\* C12: after get(); unget(); get(), begun anywhere but at the very start of
\* the input, the two get calls have returned the same value and the cursor
\* is where the first get left it.
C12_GetUngetGet ==
    RoundTrip => /\ call.st = "ok"
                 /\ call.trail[3].v = call.trail[1].v
                 /\ call.trail[3].rd = call.trail[1].rd


\* The lines of the text, as readline cuts them.
Lines == SplitLines(input.text)

\* The number of characters of the text before its line no.
LineStart(no) == SumLens(Lines, no - 1)

\* The caller's count before the last call.
CountBefore == call.trail[Len(call.trail)].from

\* The Reader holds nothing, or the caller's count stands at the first
\* character of the oldest line the Reader holds.
AtWindowStart(r, count) == r.buffer = <<>> \/ count = LineStart(r.buffer[1].no)

\* C13: an unget call either returns, and then the next get() returns the
\* character just before the one it would have returned (also when that
\* character is the newline of the line before), or raises BufferError; it
\* raises exactly when the Reader holds nothing or the cursor stood at the
\* first character of the oldest line held.  The Reader holds the last lines
\* read, at most 3 of them.
C13_UngetWithinWindow ==
    /\ Len(reader.buffer) <= 3
    /\ Len(reader.buffer) = (IF reader.real_line < 3 THEN reader.real_line ELSE 3)
    /\ \A i \in 1..Len(reader.buffer) :
          /\ reader.buffer[i].no = reader.real_line - Len(reader.buffer) + i
          /\ reader.buffer[i].chars = Lines[reader.buffer[i].no]
    /\ call.op = "unget"
          => /\ call.st \in {"ok", "BufferError"}
             /\ call.st = "BufferError" <=> AtWindowStart(call.before, CountBefore)
             /\ call.st = "ok" => /\ consumed = CountBefore - 1
                                  /\ Get(reader).st = "ok"
                                  /\ Get(reader).v = input.text[CountBefore]

\* unget has gone back over a line boundary after the first line had left
\* the Reader, and unget has raised with the cursor on a line that is not
\* the first line of the text.
C13_Witness ==
    /\ call.op = "unget"
    /\ reader.real_line = 4
    /\ \/ /\ call.st = "ok"
          /\ call.before.pos = 1
          /\ reader.line < call.before.line
          /\ Get(reader).v = "\n"
       \/ /\ call.st = "BufferError"
          /\ call.before.buffer[1].no = 2

\* The line and the column of the character at offset count of the text,
\* both counted from 1.
LineOf(count) == 1 + Cardinality({k \in 1..count : input.text[k] = "\n"})
ColumnOf(count) == count + 1 - LineStart(LineOf(count))

\* C14: at() returns the line and the column, counted from 1 in the whole
\* text, of the character the next get() returns, and the location without
\* line and column once the input is exhausted.
C14_AtNextCharacter ==
    call.op = "at"
        => IF consumed = Len(input.text)
           THEN call.v = <<>> /\ Get(reader).v = None
           ELSE /\ call.v = <<LineOf(consumed), ColumnOf(consumed)>>
                /\ Get(reader).v = input.text[consumed + 1]

\* at() has been called after an unget back over a line boundary, on line 3
\* of a text whose first line has left the Reader.
C14_Witness ==
    /\ call.op = "at"
    /\ reader.real_line = 4
    /\ call.v = <<3, 1>>
    /\ Len(call.trail) > 1
    /\ call.trail[Len(call.trail) - 1].op = "unget"


(***************************************************************************)
(* The lexer as a state machine: a Tokenizer over a Reader over a text,    *)
(* whose _next_token is called, as _ensure_n_tokens calls it, until it has *)
(* queued an EOF token or has raised.                                      *)
(***************************************************************************)
MaxLexFrags == 3    \* a text of the lexer is made of at most this many fragments

\* Blanks, newlines, words, comments, section headers and a quoted newline.
LexFragments ==
    {<<" ">>, <<"\n">>, <<"A">>, <<";">>, <<"#", "c">>,
     <<"[", "A", "]">>, <<"[", "$", "A", "]">>, <<"'", "\n", "'">>}

\* A call of _next_token: new holds the tokens it has queued.
LexCalled(op, st, new) == [op |-> op, st |-> st, new |-> new]

\* Tokenizer(Reader(StringIO(text)), EnvironmentVariable(env), whitespace)
LexInit ==
    /\ \E text \in TextsOf(LexFragments, MaxLexFrags) :
          /\ input = [text |-> text]
          /\ reader = NewReader(text)
    /\ env = Env
    /\ whitespace \in Policies
    /\ single = {"="}
    /\ tokens = <<>>
    /\ output = <<>>
    /\ consumed = 0
    /\ shadow = [rd |-> reader, tokens |-> <<>>]
    /\ call = LexCalled("Tokenizer", "ok", <<>>)

\* self._next_token()
NextTokenCall ==
    /\ call.st = "ok"
    /\ IF tokens = <<>> THEN TRUE ELSE tokens[Len(tokens)].type # "EOF"
    /\ \E t \in {NextToken(reader, whitespace, single)} :
          /\ reader' = t.rd
          /\ tokens' = tokens \o t.new
          /\ call' = LexCalled("_next_token", t.st, t.new)
    /\ UNCHANGED <<env, whitespace, single, output, consumed, shadow, input>>

SpecLex == LexInit /\ [][NextTokenCall]_vars

(***************************************************************************)
(* Properties of the lexer                                                 *)
(***************************************************************************)
\* The whole text is tokenized: the EOF token is queued.
Tokenized == call.st = "ok" /\ tokens # <<>> /\ tokens[Len(tokens)].type = "EOF"

\* The kinds of the queued tokens, in order.
Kinds == [k \in 1..Len(tokens) |-> tokens[k].type]

\* How the character at position k of the text is read: inside a quote
\* ("quote"), after a "#" or ";" of its line ("comment") or outside both
\* ("plain").  A "'" enters or leaves a quote, a "#" or ";" outside quotes
\* starts a comment and the newline of that line ends it.
RECURSIVE ModeAt(_)
ModeAt(k) ==
    IF k = 1 THEN "plain"
    ELSE LET mode == ModeAt(k - 1)
             c == input.text[k - 1]
         IN CASE mode = "plain" /\ c = "'" -> "quote"
              [] mode = "plain" /\ c \in {"#", ";"} -> "comment"
              [] mode = "quote" /\ c = "'" -> "plain"
              [] mode = "comment" /\ c = "\n" -> "plain"
              [] OTHER -> mode

\* The positions of the text that hold a newline outside quotes.
Newlines == {k \in 1..Len(input.text) : input.text[k] = "\n" /\ ModeAt(k) # "quote"}

\* C16: under a policy that emits NEWLINE tokens, a comment ends before the
\* newline of its line: every newline of the text outside quotes, the one
\* that ends a comment included, gives a NEWLINE token.
C16_CommentKeepsNewline ==
    (Tokenized /\ whitespace \in {"NEWLINE", "BOTH"})
        => Cardinality({k \in 1..Len(tokens) : tokens[k].type = "NEWLINE"})
           = Cardinality(Newlines)


\* The positions of the text that hold whitespace outside quotes and
\* comments, and those among them that hold a newline.
PlainSpaces == {k \in 1..Len(input.text) : IsSpace(input.text[k]) /\ ModeAt(k) = "plain"}
PlainNewlines == {k \in PlainSpaces : input.text[k] = "\n"}

\* The maximal runs of the text from position k on that lie in the set of
\* positions, in order.
RECURSIVE RunsFrom(_, _)
RunsFrom(k, positions) ==
    IF k > Len(input.text) THEN <<>>
    ELSE IF k \notin positions THEN RunsFrom(k + 1, positions)
    ELSE LET e == CHOOSE e \in k..Len(input.text) :
                      /\ \A i \in k..e : i \in positions
                      /\ (e + 1) \notin positions
         IN <<SubSeq(input.text, k, e)>> \o RunsFrom(e + 1, positions)

\* The queued tokens of a kind, in order.
RECURSIVE OfKind(_, _)
OfKind(toks, kind) ==
    IF toks = <<>> THEN <<>>
    ELSE (IF Head(toks).type = kind THEN <<Head(toks)>> ELSE <<>>) \o OfKind(Tail(toks), kind)

ContentsOf(toks) == [k \in 1..Len(toks) |-> toks[k].content]

PositionOf(token) == LineStart(token.at[1]) + token.at[2]

\* C20: a "$" inside a section header is expanded: the SECTION token of a
\* header written [$A] holds the value of A.
C20_SectionExpands ==
    Tokenized
        => \A k \in 1..Len(tokens) :
              (tokens[k].type = "SECTION" /\ input.text[PositionOf(tokens[k]) + 1] = "$")
                  => tokens[k].content = Env[<<"A">>]

(***************************************************************************)
(* Token.is_a as a state machine: a Token with a content of a few          *)
(* characters, and a caller that asks it for a type.                       *)
(***************************************************************************)
MaxContent == 4    \* the content of the token has at most this many characters

ContentChars == {"-", "+", "0", "1", "8", "x", "f"}

RECURSIVE Contents(_)
Contents(n) ==
    IF n = 0 THEN {<<>>}
    ELSE LET shorter == Contents(n - 1)
         IN shorter \cup {Append(t, c) : t \in shorter, c \in ContentChars}

\* The types the caller asks for.
WantedTypes == {"NUMBER", "WORD", "TEXT"}

\* Token(at, token_type, content)
TokenInit ==
    /\ \E content \in Contents(MaxContent), type \in {"TEXT", "SECTION"} :
          /\ input = [text |-> content]
          /\ tokens = <<Token(<<1, 1>>, type, content)>>
    /\ reader = NewReader(<<>>)
    /\ env = Env
    /\ whitespace = "NONE"
    /\ single = {}
    /\ output = <<>>
    /\ consumed = 0
    /\ shadow = [rd |-> reader, tokens |-> <<>>]
    /\ call = [op |-> "Token", wanted |-> "ANY", v |-> TRUE]

\* token.is_a(wanted_type)
IsACall(wanted_type) ==
    /\ call' = [op |-> "is_a", wanted |-> wanted_type, v |-> IsA(tokens[1], wanted_type)]
    /\ UNCHANGED <<reader, env, whitespace, single, tokens, output, consumed, shadow, input>>

TokenNext == \E wanted_type \in WantedTypes : IsACall(wanted_type)

SpecToken == TokenInit /\ [][TokenNext]_vars

(***************************************************************************)
(* Properties of Token.is_a                                                *)
(***************************************************************************)
\* An integer literal with an optional sign: 0x or 0X and hexadecimal
\* digits, 0 and octal digits, or decimal digits that do not start with 0.
SignedLiteral(content) ==
    LET body == IF content # <<>> /\ content[1] \in {"-", "+"} THEN Tail(content)
                ELSE content
    IN \/ /\ Len(body) >= 3
          /\ body[1] = "0" /\ body[2] \in {"x", "X"}
          /\ \A i \in 3..Len(body) : body[i] \in HexDigits
       \/ /\ Len(body) >= 1
          /\ body[1] = "0"
          /\ \A i \in 2..Len(body) : body[i] \in OctDigits
       \/ /\ Len(body) >= 1
          /\ body[1] \in Digits \ {"0"}
          /\ \A i \in 2..Len(body) : body[i] \in Digits

\* C18: is_a(NUMBER) is true exactly for a TEXT token whose content is a
\* hexadecimal, octal or decimal integer literal with an optional sign.
C18_NumberIsSignedLiteral ==
    (call.op = "is_a" /\ call.wanted = "NUMBER")
        => call.v = (tokens[1].type = "TEXT" /\ SignedLiteral(tokens[1].content))


(***************************************************************************)
(* Single-character tokens: the lexer over texts that hold a character of  *)
(* _SINGLE_CHARACTER_TOKENS where a token starts, for several single_tokens *)
(* strings.                                                                *)
(***************************************************************************)
\* The texts before and after the character: nothing, a blank, a word, a
\* word and a newline; nothing, a word, a blank and "=".
GlyphBefore == {<<>>, <<" ">>, <<"A">>, <<"A", "\n">>}
GlyphAfter == {<<>>, <<"A">>, <<" ", "=">>}

\* The single_tokens strings: every character of the table (full_from_file),
\* "=" alone (ini_from_file), and the comment and section characters.
SingleSets == {SingleCharacters, {"="}, {";", "[", "]"}}

\* The text, the character and where it stands: the line and the column.
GlyphInputs ==
    {[text |-> b \o <<c>> \o a, glyph |-> c,
      at |-> IF b = <<"A", "\n">> THEN <<2, 1>> ELSE <<1, Len(b) + 1>>] :
        b \in GlyphBefore, c \in SingleCharacters, a \in GlyphAfter}

\* Tokenizer(Reader(StringIO(text)), variable, whitespace, single_tokens)
GlyphInit ==
    /\ input \in GlyphInputs
    /\ reader = NewReader(input.text)
    /\ env = Env
    /\ whitespace \in Policies
    /\ single \in SingleSets
    /\ tokens = <<>>
    /\ output = <<>>
    /\ consumed = 0
    /\ shadow = [rd |-> reader, tokens |-> <<>>]
    /\ call = LexCalled("Tokenizer", "ok", <<>>)

SpecGlyph == GlyphInit /\ [][NextTokenCall]_vars

\* The queued tokens that start where the character stands.
AtGlyph == {k \in 1..Len(tokens) : tokens[k].at = input.at}

\* C19: a character of the table that is in single_tokens and stands where a
\* token starts gives exactly one token: of the kind the table names, with
\* the character as content.
C19_GlyphGivesItsToken ==
    (Tokenized /\ input.glyph \in single)
        => \E k \in AtGlyph :
              /\ AtGlyph = {k}
              /\ tokens[k].type = SingleCharacterType(input.glyph)
              /\ tokens[k].content = <<input.glyph>>


(***************************************************************************)
(* The duration quotes as a state machine: a value of a few characters,    *)
(* and a caller that applies the 'ms' or the 's' quote to it.              *)
(***************************************************************************)
MaxDuration == 4    \* the value has at most this many characters

DurationChars == {"0", "2", "d", "h", "m", "s", "x"}

RECURSIVE Durations(_)
Durations(n) ==
    IF n = 0 THEN {<<>>}
    ELSE LET shorter == Durations(n - 1)
         IN shorter \cup {Append(t, c) : t \in shorter, c \in DurationChars}

\* The value the quote is applied to; no quote has been applied yet.
DurationInit ==
    /\ \E value \in Durations(MaxDuration) : input = [text |-> value]
    /\ reader = NewReader(<<>>)
    /\ env = Env
    /\ whitespace = "NONE"
    /\ single = {}
    /\ tokens = <<>>
    /\ output = <<>>
    /\ consumed = 0
    /\ shadow = [rd |-> reader, tokens |-> <<>>]
    /\ call = [op |-> "Expansion", quote |-> <<>>, st |-> "ok", v |-> NoneText]

\* self.quotes[quote](value, at) for the two duration quotes
QuoteCall(quote) ==
    /\ \E q \in {ApplyQuote(quote, input.text)} :
          call' = [op |-> "quote", quote |-> quote, st |-> q.st, v |-> q.v]
    /\ UNCHANGED <<reader, env, whitespace, single, tokens, output, consumed, shadow, input>>

DurationNext == \E quote \in {QuoteMs, QuoteS} : QuoteCall(quote)

SpecDuration == DurationInit /\ [][DurationNext]_vars

(***************************************************************************)
(* Properties of the duration quotes                                       *)
(***************************************************************************)
\* The factor of each unit in the base unit of the quote.
UnitFactors(quote) ==
    IF quote = QuoteMs
    THEN (<<>> :> 1) @@ (<<"m", "s">> :> 1) @@ (<<"s">> :> 1000) @@ (<<"m">> :> 60000)
         @@ (<<"h">> :> 3600000) @@ (<<"d">> :> 86400000)
    ELSE (<<>> :> 1) @@ (<<"s">> :> 1) @@ (<<"m">> :> 60) @@ (<<"h">> :> 3600)
         @@ (<<"d">> :> 86400)

\* The text as '<positive integer><unit>': the digits and the unit, where the
\* integer is a run of decimal digits that does not start with 0.
DurationLiteral(text, quote) ==
    LET n == PrefixLen(text, Digits)
        unit == SubSeq(text, n + 1, Len(text))
    IN [ok |-> n > 0 /\ text[1] # "0" /\ unit \in DOMAIN UnitFactors(quote),
        num |-> SubSeq(text, 1, n),
        unit |-> unit]

\* C21: a duration quote gives the integer times the factor of its unit as
\* decimal text for every '<positive integer><unit>' with a unit of the
\* quote (d included), and fails as not-a-duration on every other text.
C21_DurationScaled ==
    call.op = "quote" =>
        LET d == DurationLiteral(input.text, call.quote)
        IN IF d.ok
           THEN /\ call.st = "ok"
                /\ call.v = IntToStr(ParseInt(d.num, 10) * UnitFactors(call.quote)[d.unit])
           ELSE call.st = "NotADuration"


(***************************************************************************)
(* OPTIONAL in tokens_are: the tokenizer over texts without expansions,    *)
(* and a caller whose patterns put OPTIONAL before a kind and before a     *)
(* list of kinds.                                                          *)
(***************************************************************************)
OptionalFragments == {<<" ">>, <<"\n">>, <<"A">>, <<"=">>}

\* The patterns the caller tries.
OptionalPatterns ==
    {<<One("OPTIONAL"), One("ANY_WHITESPACE"), One("TEXT")>>,
     <<One("OPTIONAL"), AnyOf({"NEWLINE", "WHITESPACE"}), One("TEXT")>>,
     <<One("OPTIONAL"), One("TEXT"), One("EQ")>>,
     <<One("OPTIONAL"), AnyOf({"TEXT", "EQ"}), One("ANY_WHITESPACE")>>,
     <<One("TEXT"), One("OPTIONAL"), One("WHITESPACE"), AnyOf({"EQ", "NEWLINE"})>>}

OptionalInit ==
    /\ \E text \in TextsOf(OptionalFragments, MaxFrags) :
          /\ input = [text |-> text]
          /\ reader = NewReader(text)
    /\ env = Env
    /\ whitespace \in Policies
    /\ single = {"="}
    /\ tokens = <<>>
    /\ output = <<>>
    /\ consumed = 0
    /\ shadow = [rd |-> reader, tokens |-> <<>>]
    /\ call = [op |-> "Tokenizer", st |-> "ok", args |-> <<>>, out |-> <<>>, i |-> 0,
               result |-> Seen("ok", <<>>), alone |-> Seen("ok", <<>>)]

OptionalNext == \E args \in OptionalPatterns : TokensAreCall(args)

SpecOptional == OptionalInit /\ [][OptionalNext]_vars

(***************************************************************************)
(* Properties of OPTIONAL                                                  *)
(***************************************************************************)
\* The pending tokens as look-ahead gives them, far enough for a pattern of
\* n elements.
Pending(n) == EnsureNTokens(reader, tokens, Len(input.text) + n + 1).new

\* The length of the maximal run of tokens after the first i that match the
\* element: a kind, or a list of which at least one kind matches.
RunLength(toks, i, element) ==
    CHOOSE n \in 0..(Len(toks) - i) :
        /\ \A j \in 1..n : IsAnyOf(toks[i + j], element)
        /\ n < Len(toks) - i => ~IsAnyOf(toks[i + n + 1], element)

\* A pattern matched against toks from token i + 1 on, where OPTIONAL
\* absorbs the maximal run of its element and matching goes on with the
\* element after that.
RECURSIVE Quantified(_, _, _, _)
Quantified(toks, args, i, taken) ==
    IF args = <<>> THEN [st |-> "ok", i |-> i, taken |-> taken]
    ELSE IF IsOptional(Head(args))
    THEN Quantified(toks, Tail(Tail(args)), i + RunLength(toks, i, args[2]), taken)
    ELSE IF IsAnyOf(toks[i + 1], Head(args))
    THEN Quantified(toks, Tail(args), i + 1, Append(taken, toks[i + 1]))
    ELSE [st |-> "nomatch", i |-> 0, taken |-> <<>>]

\* C22: in tokens_are the element after OPTIONAL, a kind or a list of kinds,
\* absorbs the maximal run of pending tokens that match it (for a list: that
\* match at least one of its kinds), and matching continues with the element
\* after it: the call matches or not, takes the tokens and returns the
\* tokens that this gives.
C22_OptionalAbsorbsRun ==
    [][call'.op = "tokens_are" =>
          LET wanted == Quantified(Pending(Len(call'.args)), call'.args, 0, <<>>)
          IN /\ call'.st = wanted.st
             /\ call'.i = wanted.i
             /\ call'.result.returned = wanted.taken]_vars


(***************************************************************************)
(* The Reader's cursor: a Reader over a text, and a caller that calls      *)
(* get, get_quoted, unget and at, and goes on calling after a call has     *)
(* raised.  consumed counts the calls that have raised.                    *)
(***************************************************************************)
MaxRaised == 2    \* the caller stops once this many calls have raised

CursorChars == {"a", "1", "\n"}

RECURSIVE CursorTexts(_)
CursorTexts(n) ==
    IF n = 0 THEN {<<>>}
    ELSE LET shorter == CursorTexts(n - 1)
         IN shorter \cup {Append(t, c) : t \in shorter, c \in CursorChars}

\* A call on the Reader: how it ended and what it returned.
CursorCalled(op, st, v) == [op |-> op, st |-> st, v |-> v]

\* Reader(StringIO(text))
CursorInit ==
    /\ \E text \in CursorTexts(MaxChars) :
          /\ input = [text |-> text]
          /\ reader = NewReader(text)
    /\ env = Env
    /\ whitespace = "NONE"
    /\ single = {}
    /\ tokens = <<>>
    /\ output = <<>>
    /\ consumed = 0
    /\ shadow = [rd |-> reader, tokens |-> <<>>]
    /\ call = CursorCalled("Reader", "ok", None)

\* A call that leaves the Reader as m.rd, having returned or raised.
CursorCall(op, m) ==
    /\ consumed < MaxRaised
    /\ reader' = m.rd
    /\ consumed' = IF m.st = "ok" THEN consumed ELSE consumed + 1
    /\ call' = CursorCalled(op, m.st, m.v)
    /\ UNCHANGED <<env, whitespace, single, tokens, output, shadow, input>>

\* reader.get(), reader.get_quoted(), reader.unget(), reader.at()
CursorGet == \E g \in {Get(reader)} : CursorCall("get", g)
CursorGetQuoted == \E g \in {GetQuoted(reader)} : CursorCall("get_quoted", g)
CursorUnget == \E u \in {Unget(reader)} : CursorCall("unget", u)
CursorAt ==
    /\ call.op # "at"
    /\ CursorCall("at", [rd |-> reader, st |-> "ok", v |-> At(reader)])

CursorNext ==
    \/ CursorGet
    \/ CursorGetQuoted
    \/ CursorUnget
    \/ CursorAt

SpecCursor == CursorInit /\ [][CursorNext]_vars

(***************************************************************************)
(* Properties of the Reader's cursor                                       *)
(***************************************************************************)
\* The cursor refers to a character of a line the Reader holds.
InWindow(r) ==
    /\ 0 <= r.line /\ r.line < Len(r.buffer)
    /\ 1 <= r.pos /\ r.pos < LineLen(r, r.line)

\* C23: after any sequence of get, get_quoted, unget and at calls, returned
\* or raised, the cursor refers to a character of a line the Reader holds or
\* is the end-of-input position, and the next get() returns a character of
\* the text or None.
C23_CursorInWindow ==
    /\ InWindow(reader) \/ ReaderEof(reader)
    /\ Get(reader).st = "ok"
    /\ Get(reader).v \in CursorChars \cup {None}


(***************************************************************************)
(* Termination of expand                                                   *)
(***************************************************************************)
\* The last call is an expand whose loop over a default body repeats a pass
\* that changes nothing: the call neither returns nor raises.
ExpandRunsForEver == call.op = "expand" /\ call.st = "hang"

\* C24: every expand call returns or raises after finitely many Reader
\* operations, for either should_resolve, also when the text ends directly
\* after a "$" or inside a default body or an arithmetic expression.
C24_ExpandTerminates == ~ExpandRunsForEver


(***************************************************************************)
(* Termination of tokens_are                                               *)
(***************************************************************************)
\* The last call is a tokens_are whose OPTIONAL loop has reached an EOF
\* token that its element matches: every token lexed from there on is an EOF
\* token, the loop goes on queueing them and the call neither returns nor
\* raises.
TokensAreRunsForEver == call.op = "tokens_are" /\ call.st = "hang"

\* C25: every tokens_are call returns or raises after it has queued finitely
\* many tokens, for every pattern, OPTIONAL followed by EOF, EOL or ANY
\* included.
C25_TokensAreTerminates == ~TokensAreRunsForEver


(***************************************************************************)
(* Expansion sites: the same caller over the texts $(operand op operand)   *)
(* and $(operand op operand op operand), an operand being a literal or a   *)
(* $-expansion, among them expansions that hold a $(...) of their own.     *)
(***************************************************************************)
\* The environment of these texts: A is 5, any other name has no value.
SiteEnv == (<<"A">> :> <<"5">>)

\* An operand: its text, its integer, and whether the text holds a $(...)
\* in a default body that is not used, because the name has a value.
Site(src, value, unused) == [src |-> src, value |-> value, unused |-> unused]

Sites ==
    {Site(<<"3">>, 3, FALSE),
     Site(<<"$", "A">>, 5, FALSE),
     Site(<<"$", "(", "2", ")">>, 2, FALSE),
     Site(<<"$", "{", "A", "|", "d", "}">>, 5, FALSE),
     Site(<<"$", "{", "X", "|", "$", "(", "2", ")", "}">>, 2, FALSE),
     Site(<<"$", "{", "A", "|", "$", "(", "2", ")", "}">>, 5, TRUE)}

SiteOperators == {"+", "*"}

\* One more operand after an operator, with or without blanks around it.
Further ==
    {[src |-> (IF spaced THEN <<" ", op, " ">> ELSE <<op>>) \o s.src, op |-> op, site |-> s] :
        spaced \in BOOLEAN, op \in SiteOperators, s \in Sites}

\* The expressions: a first operand and one or two further ones.
SiteExpressions ==
    {[src |-> s.src \o f.src, sites |-> <<s, f.site>>, ops |-> <<f.op>>] :
        s \in Sites, f \in Further}
    \cup {[src |-> s.src \o f.src \o g.src, sites |-> <<s, f.site, g.site>>,
           ops |-> <<f.op, g.op>>] :
        s \in Sites, f \in {f \in Further : f.src[1] # " "},
        g \in {g \in Further : g.src[1] # " "}}

SiteInputs ==
    {[text |-> <<"$", "(">> \o e.src \o <<")">>,
      structured |-> TRUE,
      construct |-> Math(e.src),
      start |-> 1, end |-> Len(e.src) + 3,
      sites |-> e.sites, ops |-> e.ops] : e \in SiteExpressions}

\* Expansion(reader, EnvironmentVariable(env)) over these texts
SiteInit ==
    /\ input \in SiteInputs
    /\ reader = NewReader(input.text)
    /\ env = SiteEnv
    /\ whitespace = "NONE"
    /\ single = {}
    /\ tokens = <<>>
    /\ output = <<>>
    /\ consumed = 0
    /\ shadow = [rd |-> reader, tokens |-> <<>>]
    /\ call = Called("Expansion", "ok", FALSE, <<>>, 0, NoTwin)

SpecSite == SiteInit /\ [][ExpandNext]_vars

(***************************************************************************)
(* Properties of expansion sites                                           *)
(***************************************************************************)
\* l op r for the operators of SiteOperators
SiteApplied(op, l, r) == IF op = "+" THEN l + r ELSE l * r

\* The value of the expression, every operand valued as its own text says,
\* "*" before "+" and equal operators from left to right.
SiteValue ==
    LET v == [k \in 1..Len(input.sites) |-> input.sites[k].value]
    IN IF Len(v) = 2 THEN SiteApplied(input.ops[1], v[1], v[2])
       ELSE IF input.ops = <<"+", "*">> THEN v[1] + v[2] * v[3]
       ELSE SiteApplied(input.ops[2], SiteApplied(input.ops[1], v[1], v[2]), v[3])

\* C26: in a $(...) expanded with should_resolve true every literal and
\* every $-operand is valued under that should_resolve, also the ones that
\* follow an operand whose expansion has gone through a $(...) of its own in
\* a default body that is not used: expand returns the decimal text of the
\* value of the expression ("8" for $(${A|$(2)} + 3) with A = 5).
C26_SitesKeepTheirState ==
    (Resolving /\ input.construct.kind = "math" /\ call.op = "expand")
        => /\ call.st = "ok"
           /\ call.v = IntToStr(SiteValue)


(***************************************************************************)
(* Reader underflow: the tokenizer over texts of several lines with words, *)
(* names and arithmetic, and a caller that calls tokens_are(ANY) and       *)
(* peek_token, and goes on calling after a call has raised.                *)
(***************************************************************************)
MaxUnderflow == 5    \* a text is made of at most this many fragments

\* A newline, a blank, a word (a name after "$"), a "$" and what makes an
\* arithmetic expansion after "$".
UnderflowFragments == {<<"\n">>, <<" ">>, <<"A">>, <<"$">>, <<"(", "1", ")">>}

\* A call on the Tokenizer: how it ended.
UnderflowCalled(op, st) == [op |-> op, st |-> st]

\* Tokenizer(Reader(StringIO(text)), EnvironmentVariable(env), whitespace)
UnderflowInit ==
    /\ \E text \in TextsOf(UnderflowFragments, MaxUnderflow) :
          /\ input = [text |-> text]
          /\ reader = NewReader(text)
    /\ env = Env
    /\ whitespace \in Policies
    /\ single = {"="}
    /\ tokens = <<>>
    /\ output = <<>>
    /\ consumed = 0
    /\ shadow = [rd |-> reader, tokens |-> <<>>]
    /\ call = UnderflowCalled("Tokenizer", "ok")

\* tokens_are(TokenType.ANY, output=[]), also after a call that raised
UnderflowTake ==
    /\ \E m \in {TokensAre(reader, tokens, <<One("ANY")>>, 0, <<>>, FALSE)} :
          /\ reader' = m.rd
          /\ tokens' = m.tokens
          /\ call' = UnderflowCalled("tokens_are", m.st)
    /\ UNCHANGED <<env, whitespace, single, output, consumed, shadow, input>>

\* peek_token(), also after a call that raised
UnderflowPeek ==
    /\ \E p \in {PeekToken(reader, tokens)} :
          /\ reader' = p.rd
          /\ tokens' = p.new
          /\ call' = UnderflowCalled("peek_token", p.st)
    /\ UNCHANGED <<env, whitespace, single, output, consumed, shadow, input>>

UnderflowNext ==
    \/ UnderflowTake
    \/ UnderflowPeek

SpecUnderflow == UnderflowInit /\ [][UnderflowNext]_vars

(***************************************************************************)
(* Properties of the Reader under the lexer                                *)
(***************************************************************************)
\* C27: no sequence of tokens_are and peek_token calls, with the
\* expansions, name reads and arithmetic they trigger, makes Reader.unget
\* raise BufferError (or index outside the lines the Reader holds): every
\* unget of the lexer finds a character to go back to.
C27_NoUnderflow == call.st \notin {"BufferError", "IndexError"}


\* A call has returned with the cursor on the newline of a line that is not
\* the last one the Reader holds, after the first line of the text has left
\* the Reader: the lexer has gone back over a line boundary.
C27_Witness ==
    /\ call.op \in {"tokens_are", "peek_token"} /\ call.st = "ok"
    /\ reader.real_line >= 4
    /\ reader.line + 1 < Len(reader.buffer)
    /\ Get(reader).v = "\n"


(***************************************************************************)
(* tokens_are without an output argument: two Tokenizers, each over a text *)
(* of its own, and a caller that calls tokens_are on either without        *)
(* passing output.  output is the list that the default of the parameter   *)
(* names: it is made once, when the function is defined, and every call    *)
(* without the argument gets that same list.  shadow is the second         *)
(* Tokenizer.                                                              *)
(***************************************************************************)
MaxDefault == 3    \* the caller stops once the default list holds this many tokens

MaxDefaultFrags == 2    \* a text of either Tokenizer is made of at most this many fragments

DefaultFragments == {<<" ">>, <<"A">>, <<"=">>}
DefaultTexts == TextsOf(DefaultFragments, MaxDefaultFrags)

\* The patterns the caller tries.
DefaultPatterns ==
    {<<One("TEXT")>>,
     <<One("EOF")>>,
     <<One("TEXT"), One("EQ")>>}

\* A call: the Tokenizer it was made on, the tokens it matched and the list
\* it returned.
DefaultCalled(on, st, args, taken, returned) ==
    [op |-> "tokens_are", on |-> on, st |-> st, args |-> args, taken |-> taken,
     returned |-> returned]

\* Two Tokenizers are made; the default list of tokens_are is empty
DefaultInit ==
    /\ \E text \in DefaultTexts, other \in DefaultTexts :
          /\ input = [text |-> text, other |-> other]
          /\ reader = NewReader(text)
          /\ shadow = [rd |-> NewReader(other), tokens |-> <<>>]
    /\ env = Env
    /\ whitespace \in {"NONE", "WHITESPACE"}
    /\ single = {"="}
    /\ tokens = <<>>
    /\ output = <<>>
    /\ consumed = 0
    /\ call = DefaultCalled("none", "ok", <<>>, <<>>, <<>>)

\* What a call that ended as m appends to the list it was given and returns.
Appended(list, m) == IF m.st = "ok" THEN list \o m.taken ELSE list

\* tokens_are(*args) on the first Tokenizer
TokensAreDefault(args) ==
    /\ Len(output) < MaxDefault
    /\ \E m \in {TokensAre(reader, tokens, args, 0, <<>>, FALSE)} :
          /\ reader' = m.rd
          /\ tokens' = m.tokens
          /\ output' = Appended(output, m)
          /\ call' = DefaultCalled("first", m.st, args, m.taken, Appended(output, m))
    /\ UNCHANGED <<env, whitespace, single, consumed, shadow, input>>

\* tokens_are(*args) on the second Tokenizer
OtherTokensAreDefault(args) ==
    /\ Len(output) < MaxDefault
    /\ \E m \in {TokensAre(shadow.rd, shadow.tokens, args, 0, <<>>, FALSE)} :
          /\ shadow' = [rd |-> m.rd, tokens |-> m.tokens]
          /\ output' = Appended(output, m)
          /\ call' = DefaultCalled("second", m.st, args, m.taken, Appended(output, m))
    /\ UNCHANGED <<reader, env, whitespace, single, tokens, consumed, input>>

DefaultNext ==
    \E args \in DefaultPatterns :
        \/ TokensAreDefault(args)
        \/ OtherTokensAreDefault(args)

SpecDefault == DefaultInit /\ [][DefaultNext]_vars

(***************************************************************************)
(* Properties of tokens_are without an output argument                     *)
(***************************************************************************)
\* C28: a tokens_are call without an output argument that succeeds returns
\* the tokens it has matched and no others, whatever calls were made before
\* on this or on another Tokenizer.
C28_ReturnsOwnTokens ==
    (call.on # "none" /\ call.st = "ok") => call.returned = call.taken

=============================================================================
